---------------------------- MODULE Spec2Model ----------------------------
(***************************************************************************)
(* A model of gcpp: bitflags (bitflags.h), gpage (gpage.h) and             *)
(* deferred_heap / deferred_ptr (deferred_heap.h).                         *)
(*                                                                         *)
(* Addresses are pairs <<pg, off>>: pg identifies the storage block (a     *)
(* page of the heap, or a block outside it) and off is the byte offset in  *)
(* it.  A bitflags unit is the set of the positions of its 1 bits.         *)
(***************************************************************************)
EXTENDS Integers, Sequences, FiniteSets, TLC

VARIABLES
    gp,         \* SpecPage: the gpage under test
    gp_allocs,  \* SpecPage: history, start location -> locations taken
    gp_last,    \* SpecPage: history, the last call, its result, the page before it
                \* (undo: the page before the allocate that this deallocate undoes)
    gp_fault,   \* SpecPage: a contract of gpage/bitflags was violated
    flags,      \* SpecBits: the bitflags under test
    flags_ops,  \* SpecBits: number of calls made on it
    throwing,   \* the objects whose destructor throws
    owned,      \* <<o, a>>: ~T() of object o destroys the root deferred_ptr at a
    dt_last,    \* SpecDtors: history, the last call on the destructor table
    ty,         \* the element type T the program allocates: size, align, members
    pages,      \* deferred_heap::pages, a sequence of dhpage
    npages,     \* number of dhpages constructed so far (names their storage)
    roots,      \* deferred_heap::roots of each heap
    dtors,      \* deferred_heap::dtors, a sequence of destructor records
    alive,      \* whether each heap has not been destroyed yet
    is_destroying, \* deferred_heap::is_destroying of each heap
    collect_before_expand,
    sp,         \* the deferred_ptrs that exist: address -> (myheap, p, obj)
    objs,       \* the objects whose lifetime has begun and not ended: id -> address
    dcount,     \* history: per object constructed, how often its destructor ran
    allocs,     \* history: the allocations made and not deallocated
    pc,         \* where the program is: idle, or inside collect()
    cur,        \* collect(): the sweep's position <<page index, location>>
    cont,       \* the allocate<T>(n) call that invoked collect(), if any
    snap,       \* history: what was reachable when collect() started
    fault,      \* a contract (Expects/Ensures) failed: the program has terminated
    why         \* history: which contract failed

pageVars == <<gp, gp_allocs, gp_last, gp_fault, flags, flags_ops, throwing, owned,
              dt_last>>

heapVars == <<ty, pages, npages, roots, dtors, alive, is_destroying,
              collect_before_expand, sp,
              objs, dcount, allocs, pc, cur, cont, snap, fault, why>>

vars == <<pageVars, heapVars>>

-----------------------------------------------------------------------------
(* Bounds of the model *)

\* largest element count n of one allocate<T>(n) call on the gpage under test
MaxCount == 3

-----------------------------------------------------------------------------
(* bitflags *)

bits_per_unit == 32

\* std::size_t arithmetic is modular; the model keeps 30 bits of it
SIZE_MOD == 1073741824

all_units == 0 .. (bits_per_unit - 1)

\* a mask that has bit k as well
low_mask_incl(k) == 0 .. k

\* (unit(1) << k) - 1
low_mask(k) == 0 .. (k - 1)

all_bits(value) == IF value THEN all_units ELSE {}

bit_mask(at) == {at % bits_per_unit}

unit_count(bit_count) == (bit_count + bits_per_unit - 1) \div bits_per_unit

\* bits[at / bits_per_unit]; sequences are 1-based
bit_unit(bf, at) == bf.bits[(at \div bits_per_unit) + 1]

bitflags_new(nbits, value) ==
    [size |-> nbits, bits |-> [u \in 1 .. unit_count(nbits) |-> all_bits(value)]]

\* the Expects of get() and set(at)
get_in_range(bf, at) == 0 <= at /\ at < bf.size

get(bf, at) == (bit_unit(bf, at) \cap bit_mask(at)) # {}

\* bit_mask(size) - 1 is the mask of the bits below size % bits_per_unit
all_false(bf) ==
    /\ \A u \in 1 .. (unit_count(bf.size) - 1) : bf.bits[u] = {}
    /\ (bf.bits[unit_count(bf.size)] \cap low_mask(bf.size % bits_per_unit)) = {}

set(bf, at, value) ==
    [bf EXCEPT !.bits[(at \div bits_per_unit) + 1] =
        IF value THEN @ \cup bit_mask(at) ELSE @ \ bit_mask(at)]

set_all(bf, value) ==
    [bf EXCEPT !.bits = [u \in DOMAIN bf.bits |-> all_bits(value)]]

set_range(bf, from, to, value) ==
    IF from = to THEN bf
    ELSE
    LET from_unit == from \div bits_per_unit
        from_mod  == from % bits_per_unit
        to_unit   == to \div bits_per_unit
        to_mod    == to % bits_per_unit
        mask1     == low_mask(from_mod) \cup
                     (IF from_unit = to_unit THEN all_units \ low_mask(to_mod) ELSE {})
        mask2     == low_mask(to_mod)
        data0     == IF from_mod # 0 THEN from_unit + 1 ELSE from_unit
        new(u, old) ==
            IF from_mod # 0 /\ u = from_unit
            THEN (IF value THEN old \cup (all_units \ mask1) ELSE old \cap mask1)
            ELSE IF from_mod # 0 /\ from_unit = to_unit THEN old
            ELSE IF data0 <= u /\ u < to_unit THEN all_bits(value)
            ELSE IF to_mod # 0 /\ u = to_unit
            THEN (IF value THEN old \cup mask2 ELSE old \ mask2)
            ELSE old
    IN [bf EXCEPT !.bits = [k \in DOMAIN bf.bits |-> new(k - 1, bf.bits[k])]]

\* a scan that does not move: the first position of the unit is returned
scan_for_stuck(bf, from, value) == from

\* while (get(from) != value) ++from;  -1 when get() would be out of range
RECURSIVE scan_for(_, _, _)
scan_for(bf, from, value) ==
    IF ~get_in_range(bf, from) THEN -1
    ELSE IF get(bf, from) = value THEN from
    ELSE scan_for(bf, from + 1, value)

\* bitflags::find_next(from, to, value): the position returned, and whether
\* a get() out of range or an Ensures has failed on the way
find_next(bf, from, to, value) ==
    LET from_unit == from \div bits_per_unit
        from_mod  == from % bits_per_unit
        to_unit   == to \div bits_per_unit
        to_mod    == to % bits_per_unit
        \* (value && (u & mask) != 0) || (!value && (~u & mask) != 0)
        has(u, mask) == IF value THEN (bf.bits[u + 1] \cap mask) # {}
                        ELSE ((all_units \ bf.bits[u + 1]) \cap mask) # {}
        mask1  == all_units \ (low_mask(from_mod) \cup
                     (IF from_unit = to_unit THEN all_units \ low_mask(to_mod) ELSE {}))
        data0  == IF from_mod # 0 THEN from_unit + 1 ELSE from_unit
        whole  == {u \in data0 .. to_unit - 1 : has(u, all_units)}
        data1  == IF whole = {} THEN to_unit
                  ELSE CHOOSE u \in whole : \A w \in whole : u <= w
        found(k) == [ret |-> k, fault |-> ~(0 <= k /\ k < to)]
    IN  IF from = to THEN [ret |-> to, fault |-> FALSE]
        ELSE IF from_mod # 0 /\ has(from_unit, mask1)
        THEN found(scan_for(bf, from, value))
        ELSE IF from_mod # 0 /\ from_unit = to_unit
        THEN [ret |-> to, fault |-> FALSE]
        ELSE IF data1 # to_unit
        THEN found(scan_for(bf, data1 * bits_per_unit, value))
        ELSE IF to_mod # 0 /\ has(to_unit, low_mask(to_mod))
        THEN found(scan_for(bf, to_unit * bits_per_unit, value))
        ELSE [ret |-> to, fault |-> FALSE]

-----------------------------------------------------------------------------
(* gpage *)

not_in_range == 0
in_range_unallocated == 1
in_range_allocated_middle == 2
in_range_allocated_start == 3

\* the null return of allocate
NullOff == -1

locations(g) == g.total_size \div g.min_alloc

gpage_new(total_size_, min_alloc_) ==
    LET total == total_size_ +
                 (IF total_size_ % min_alloc_ > 0
                  THEN min_alloc_ - (total_size_ % min_alloc_) ELSE 0)
    IN [total_size |-> total,
        min_alloc  |-> min_alloc_,
        inuse      |-> bitflags_new(total \div min_alloc_, FALSE),
        starts     |-> bitflags_new(total \div min_alloc_, FALSE),
        current_known_request_bound |-> total]

\* gpage::is_empty, with its Ensures
is_empty(g) == all_false(g.inuse)
is_empty_ensures(g) == ~all_false(g.inuse) \/ all_false(g.starts)

\* std::align(alignment, size, ptr, space) on storage whose base is aligned
\* for every type of the model: the adjustment is 0, and the call fails iff
\* the size does not fit the space
std_align_fails(alignment, size, space) == size > space

\* the inner loop of allocate: probe locations i+j for j = 0, 1, ...
RECURSIVE probe(_, _, _, _)
probe(inuse, i, j, locations_needed) ==
    IF j = locations_needed THEN [kind |-> "fit", j |-> j]
    ELSE IF ~get_in_range(inuse, i + j) THEN [kind |-> "fault", j |-> j]
    ELSE IF get(inuse, i + j) THEN [kind |-> "hit", j |-> j]
    ELSE probe(inuse, i, j + 1, locations_needed)

\* an outer loop that steps once more than it should after a hit
RECURSIVE scan_overshoot(_, _, _, _, _)
scan_overshoot(inuse, i, end, locations_step, locations_needed) ==
    IF ~(i < end) THEN [kind |-> "none", i |-> i]
    ELSE LET r == probe(inuse, i, 0, locations_needed)
         IN  IF r.kind = "hit"
             THEN scan_overshoot(inuse, (i + (r.j - (r.j % locations_step)))
                                        + 2 * locations_step,
                                 end, locations_step, locations_needed)
             ELSE [kind |-> r.kind, i |-> i]

\* the outer loop of allocate: for (; i < end; i += locations_step)
RECURSIVE scan(_, _, _, _, _)
scan(inuse, i, end, locations_step, locations_needed) ==
    IF ~(i < end) THEN [kind |-> "none", i |-> i]
    ELSE LET r == probe(inuse, i, 0, locations_needed)
         IN  IF r.kind = "hit"
             THEN scan(inuse, (i + (r.j - (r.j % locations_step))) + locations_step,
                       end, locations_step, locations_needed)
             ELSE [kind |-> r.kind, i |-> i]

\* const auto end = locations() - locations_needed, in std::size_t
scan_end(g, locations_needed) ==
    (locations(g) - locations_needed) % SIZE_MOD

\* gpage::allocate<T>(n) with sizeof(T) = size and alignof(T) = alignment.
\* Returns the page after the call, the offset returned (NullOff for null)
\* and whether a contract failed on the way.
allocate(g, size, alignment, n) ==
    LET bytes_needed     == size * n
        locations_step   == 1 + (alignment - 1) \div g.min_alloc
        locations_needed == (1 + (bytes_needed - 1) \div g.min_alloc) + 1
        end              == scan_end(g, locations_needed)
        r                == scan(g.inuse, 0, end, locations_step, locations_needed)
    IN  IF bytes_needed > g.current_known_request_bound
        THEN [g |-> g, ret |-> NullOff, fault |-> FALSE]
        ELSE IF std_align_fails(alignment, bytes_needed, g.total_size)
        THEN [g |-> g, ret |-> NullOff, fault |-> FALSE]
        ELSE IF r.kind = "fault"
        THEN [g |-> g, ret |-> NullOff, fault |-> TRUE]
        ELSE IF r.kind = "none"
        THEN [g |-> [g EXCEPT !.current_known_request_bound =
                        IF @ < bytes_needed - 1 THEN @ ELSE bytes_needed - 1],
              ret |-> NullOff, fault |-> FALSE]
        ELSE [g |-> [g EXCEPT
                       !.starts = set(@, r.i, TRUE),
                       !.inuse  = set_range(@, r.i, r.i + locations_needed, TRUE),
                       !.current_known_request_bound =
                           (@ - g.min_alloc * locations_needed) % SIZE_MOD],
              ret |-> r.i * g.min_alloc, fault |-> FALSE]

\* gpage::contains, on an offset from the start of the storage
contains(g, off) == 0 <= off /\ off < g.total_size

\* the backwards scan of contains_info: the lowest start such that
\* no location in [start-1, where) is a start of an allocation
\* a backwards scan that does not move: it takes the location just below
\* where for the start
scan_back_none(starts, start) == start

RECURSIVE scan_back(_, _)
scan_back(starts, start) ==
    IF start > 0 /\ ~get(starts, start - 1) THEN scan_back(starts, start - 1)
    ELSE start

contains_info(g, off) ==
    IF ~contains(g, off)
    THEN [found |-> not_in_range, location |-> 0, start_location |-> 0, fault |-> FALSE]
    ELSE LET where == off \div g.min_alloc
         IN  IF ~get(g.inuse, where)
             THEN [found |-> in_range_unallocated, location |-> where,
                   start_location |-> 0, fault |-> FALSE]
             ELSE IF ~get(g.starts, where)
             THEN LET start == scan_back(g.starts, where)
                  IN  [found |-> in_range_allocated_middle, location |-> where,
                       start_location |-> start - 1, fault |-> ~(start > 0)]
             ELSE [found |-> in_range_allocated_start, location |-> where,
                   start_location |-> where, fault |-> FALSE]

location_info(g, where) ==
    [is_start |-> get(g.starts, where), pointer |-> where * g.min_alloc]

\* the first loop of deallocate: the next start after here, or locations()
RECURSIVE next_start_from(_, _)
next_start_from(g, k) ==
    IF k < locations(g) /\ ~get(g.starts, k) THEN next_start_from(g, k + 1) ELSE k

\* a deallocate that releases the first location only
clear_inuse_first(inuse, here, next_start) ==
    IF here < next_start /\ get(inuse, here) THEN set(inuse, here, FALSE) ELSE inuse

\* the second loop of deallocate: clear inuse from here up to next_start
RECURSIVE clear_inuse(_, _, _)
clear_inuse(inuse, here, next_start) ==
    IF here < next_start /\ get(inuse, here)
    THEN clear_inuse(set(inuse, here, FALSE), here + 1, next_start)
    ELSE inuse

\* the three Expects of deallocate
deallocate_expects(g, off) ==
    /\ contains(g, off)
    /\ get(g.starts, off \div g.min_alloc)
    /\ get(g.inuse, off \div g.min_alloc)

\* a deallocate that forgets to erase the start of the allocation
deallocate_keep_start(g, off) ==
    LET here == off \div g.min_alloc
    IN  [g EXCEPT !.current_known_request_bound = g.total_size,
                  !.inuse = clear_inuse(@, here, next_start_from(g, here + 1))]

deallocate(g, off) ==
    LET here   == off \div g.min_alloc
        starts == set(g.starts, here, FALSE)
        g1     == [g EXCEPT !.starts = starts]
        next_start == next_start_from(g1, here + 1)
    IN  [g1 EXCEPT !.current_known_request_bound = g.total_size,
                   !.inuse = clear_inuse(@, here, next_start)]


-----------------------------------------------------------------------------
(* deferred_heap: data.  The operators below take and return the state as  *)
(* a record S, so that one step of the program can chain several calls.    *)
(* Once S.fault is set the program has terminated and a call does nothing. *)

\* the handles of the heap under study and of a second heap, and no heap
HeapH == "H"
HeapG == "G"
NoHeap == "null"

NULL == <<0, 0>>

\* an address inside an allocation of heap G
FOREIGN == <<-1, 0>>

\* storage of the i-th deferred_ptr held outside the heaps (a local variable)
RootSlot(i) == <<-2, i>>

\* storage of the deferred_ptr the program holds into heap G
SlotG == <<-2, 0>>

DefaultPageSize == 8192
MinChunk == 4
GrowthFactor == 3

Max(a, b) == IF a > b THEN a ELSE b

\* a contract (Expects/Ensures) fails, or the behaviour is undefined: the
\* program ends there; why records which
FaultAs(S, reason) == [S EXCEPT !.fault = TRUE, !.why = reason]

Fault(S) == FaultAs(S, "contract")

\* dhpage::dhpage(const Hint*, n, heap) with sizeof(Hint) = size
dhpage_new(id, size, n) ==
    LET page == gpage_new(Max(size * n * GrowthFactor, DefaultPageSize),
                          Max(size, MinChunk))
    IN  [id |-> id, page |-> page,
         live_starts |-> bitflags_new(locations(page), FALSE),
         deferred_ptrs |-> <<>>]

\* pg.page.contains(p) for an address p
dh_contains(pg, a) == a[1] = pg.id /\ contains(pg.page, a[2])

\* pg.page.contains_info(p) for an address p
dh_contains_info(pg, a) ==
    IF a[1] = pg.id THEN contains_info(pg.page, a[2])
    ELSE [found |-> not_in_range, location |-> 0, start_location |-> 0, fault |-> FALSE]

\* index of the first page that contains a, or 0
RECURSIVE find_dhpage_from(_, _, _)
find_dhpage_from(pgs, a, k) ==
    IF k > Len(pgs) THEN 0
    ELSE IF dh_contains(pgs[k], a) THEN k
    ELSE find_dhpage_from(pgs, a, k + 1)

find_dhpage_of(pgs, a) == IF a = NULL THEN 0 ELSE find_dhpage_from(pgs, a, 1)

\* find_dhpage_info: the last page that has the address in range, and its info
RECURSIVE find_dhpage_info_from(_, _, _, _)
find_dhpage_info_from(pgs, a, k, ret) ==
    IF k > Len(pgs) THEN ret
    ELSE LET info == dh_contains_info(pgs[k], a)
         IN  find_dhpage_info_from(pgs, a, k + 1,
                 IF info.found # not_in_range THEN [page |-> k, info |-> info] ELSE ret)

find_dhpage_info(pgs, a) ==
    find_dhpage_info_from(pgs, a, 1,
        [page |-> 0,
         info |-> [found |-> not_in_range, location |-> 0, start_location |-> 0,
                   fault |-> FALSE]])

\* an enregister that files every deferred_ptr as a root
enregister_as_root(S, h, a) ==
    IF S.fault THEN S
    ELSE IF ~S.alive[h] THEN FaultAs(S, "destroyed heap")
    ELSE IF S.is_destroying[h] THEN Fault(S)
    ELSE [S EXCEPT !.roots[h] = @ \cup {a}]

\* deferred_heap::enregister(p) on heap h, p stored at address a.  Heap G has
\* no page that holds a deferred_ptr of the model, so it files every one as a
\* root.  Calling into a destroyed heap is undefined: recorded, and the run ends.
enregister(S, h, a) ==
    IF S.fault THEN S
    ELSE IF ~S.alive[h] THEN FaultAs(S, "destroyed heap")
    ELSE IF S.is_destroying[h] THEN Fault(S)
    ELSE LET k == IF h = HeapH THEN find_dhpage_of(S.pages, a) ELSE 0
         IN  IF k # 0
             THEN [S EXCEPT !.pages[k].deferred_ptrs = Append(@, [p |-> a, level |-> 0])]
             ELSE [S EXCEPT !.roots[h] = @ \cup {a}]

\* the last index of list whose entry is for address a, or 0
RECURSIVE rfind(_, _, _)
rfind(list, a, j) ==
    IF j = 0 THEN 0 ELSE IF list[j].p = a THEN j ELSE rfind(list, a, j - 1)

\* *j = back(); pop_back()
swap_pop(list, j) ==
    SubSeq([list EXCEPT ![j] = list[Len(list)]], 1, Len(list) - 1)

\* the loop of deregister over the pages
RECURSIVE deregister_from(_, _, _)
deregister_from(S, a, k) ==
    IF k > Len(S.pages) THEN Fault(S)
    ELSE LET j == rfind(S.pages[k].deferred_ptrs, a, Len(S.pages[k].deferred_ptrs))
         IN  IF j # 0 THEN [S EXCEPT !.pages[k].deferred_ptrs = swap_pop(@, j)]
             ELSE deregister_from(S, a, k + 1)

\* a deregister that does not look at is_destroying
deregister_in_teardown(S, h, a) ==
    IF S.fault THEN S
    ELSE IF ~S.alive[h] THEN FaultAs(S, "destroyed heap")
    ELSE IF a \in S.roots[h] THEN [S EXCEPT !.roots[h] = @ \ {a}]
    ELSE IF h = HeapH THEN deregister_from(S, a, 1)
    ELSE Fault(S)

\* deferred_heap::deregister(p) on heap h, p stored at address a
deregister(S, h, a) ==
    IF S.fault THEN S
    ELSE IF ~S.alive[h] THEN FaultAs(S, "destroyed heap")
    ELSE IF S.is_destroying[h] THEN S
    ELSE IF a \in S.roots[h] THEN [S EXCEPT !.roots[h] = @ \ {a}]
    ELSE IF h = HeapH THEN deregister_from(S, a, 1)
    ELSE Fault(S)

-----------------------------------------------------------------------------
(* deferred_ptr_void *)

Without(f, a) == [x \in DOMAIN f \ {a} |-> f[x]]

\* deferred_ptr_void(heap, p_) constructed at address a, as a member of obj
\* (obj = 0: not a member of an object of the heap)
ptr_construct(S, a, heap, p_, obj) ==
    IF S.fault THEN S
    ELSE IF ~(p_ = NULL \/ heap # NoHeap) THEN Fault(S)
    ELSE LET S1 == [S EXCEPT !.sp = (a :> [myheap |-> heap, p |-> p_, obj |-> obj]) @@ @]
         IN  IF heap # NoHeap THEN enregister(S1, heap, a) ELSE S1

\* ~deferred_ptr_void()
ptr_destroy(S, a) ==
    IF S.fault \/ a \notin DOMAIN S.sp THEN S
    ELSE LET S1 == IF S.sp[a].myheap # NoHeap
                   THEN deregister(S, S.sp[a].myheap, a) ELSE S
         IN  IF S1.fault THEN S1 ELSE [S1 EXCEPT !.sp = Without(@, a)]

\* a reset that destroys the object it pointed at, as an owning pointer would
ptr_reset_owning(S, a) ==
    IF S.fault THEN S
    ELSE LET os == {o \in DOMAIN S.objs : S.objs[o] = S.sp[a].p}
         IN  [S EXCEPT !.sp[a].p = NULL,
                       !.dcount = [o \in DOMAIN @ |-> IF o \in os THEN @[o] + 1 ELSE @[o]],
                       !.objs = [o \in DOMAIN @ \ os |-> @[o]]]

\* reset()
ptr_reset(S, a) == IF S.fault THEN S ELSE [S EXCEPT !.sp[a].p = NULL]

\* an operator= without the check that both sides are of one heap
ptr_assign_unchecked(S, a, that) ==
    IF S.fault THEN S
    ELSE IF that.myheap = NoHeap
    THEN (IF that.p # NULL THEN Fault(S) ELSE ptr_reset(S, a))
    ELSE LET S1 == [S EXCEPT !.sp[a].p = that.p]
         IN  IF S.sp[a].myheap = NoHeap
             THEN LET S2 == enregister(S1, that.myheap, a)
                  IN  IF S2.fault THEN S2 ELSE [S2 EXCEPT !.sp[a].myheap = that.myheap]
             ELSE S1

\* operator=(that), that given by value
ptr_assign(S, a, that) ==
    IF S.fault THEN S
    ELSE IF that.myheap = NoHeap
    THEN (IF that.p # NULL THEN Fault(S) ELSE ptr_reset(S, a))
    ELSE IF ~(S.sp[a].myheap = NoHeap \/ S.sp[a].myheap = that.myheap)
    THEN FaultAs(S, "assignment across heaps")
    ELSE LET S1 == [S EXCEPT !.sp[a].p = that.p]
         IN  IF S.sp[a].myheap = NoHeap
             THEN LET S2 == enregister(S1, that.myheap, a)
                  IN  IF S2.fault THEN S2 ELSE [S2 EXCEPT !.sp[a].myheap = that.myheap]
             ELSE S1

\* a detach that forgets to clear the heap handle
ptr_detach_raw_only(S, a) ==
    IF a \in DOMAIN S.sp THEN [S EXCEPT !.sp[a].p = NULL] ELSE S

\* detach(), called on a registered address; nothing to write where no
\* deferred_ptr exists any more
ptr_detach(S, a) ==
    IF a \in DOMAIN S.sp THEN [S EXCEPT !.sp[a].p = NULL, !.sp[a].myheap = NoHeap]
    ELSE S

\* deferred_ptr<T>::operator+=(offset), with the checks of a debug build
ptr_add(S, a, offset) ==
    IF S.fault THEN S
    ELSE IF S.sp[a].p = NULL THEN Fault(S)
    ELSE LET p         == S.sp[a].p
             this_info == find_dhpage_info(S.pages, p)
             temp      == <<p[1], p[2] + offset * ty.size>>
             temp_info == find_dhpage_info(S.pages, temp)
         IN  IF this_info.page = 0 \/ this_info.info.fault THEN Fault(S)
             ELSE IF ~(this_info.info.found > in_range_unallocated) THEN Fault(S)
             ELSE IF temp_info.info.fault \/ this_info.page # temp_info.page THEN Fault(S)
             ELSE IF ~( \/ /\ this_info.info.found = in_range_allocated_start
                           /\ offset \in {-1, 0, 1}
                        \/ /\ this_info.info.start_location = temp_info.info.start_location
                           /\ temp_info.info.found > in_range_unallocated )
             THEN Fault(S)
             ELSE [S EXCEPT !.sp[a].p = temp]

-----------------------------------------------------------------------------
(* destructors *)

\* lo <= dtor.p && dtor.p < hi, for a range inside one storage block
in_range(d, lo, hi) == d.p[1] = lo[1] /\ lo[2] <= d.p[2] /\ d.p[2] < hi[2]

\* std::find_if(first, last, pred) on 0-based positions
RECURSIVE find_if(_, _, _, _, _)
find_if(seq, first, last, lo, hi) ==
    IF first = last THEN last
    ELSE IF in_range(seq[first + 1], lo, hi) THEN first
    ELSE find_if(seq, first + 1, last, lo, hi)

\* unstable_remove_copy_if(first, last, out, pred): the sequence as left
\* behind, the returned position and what was copied out
RECURSIVE unstable_remove_copy_if(_, _, _, _, _, _)
unstable_remove_copy_if(seq, first, last, out, lo, hi) ==
    LET f == find_if(seq, first, last, lo, hi)
    IN  IF f = last THEN [seq |-> seq, first |-> f, out |-> out]
        ELSE LET out1  == Append(out, seq[f + 1])
                 last1 == last - 1
             IN  IF f = last1 THEN [seq |-> seq, first |-> f, out |-> out1]
                 ELSE unstable_remove_copy_if([seq EXCEPT ![f + 1] = seq[last1 + 1]],
                                              f, last1, out1, lo, hi)

\* the members of the object at address a, in declaration order
RECURSIVE OffsetsAsc(_)
OffsetsAsc(offs) ==
    IF offs = {} THEN <<>>
    ELSE LET m == CHOOSE x \in offs : \A y \in offs : x <= y
         IN  <<m>> \o OffsetsAsc(offs \ {m})

MemberSlots(a) == [i \in 1 .. Cardinality(ty.ptrs) |-> <<a[1], a[2] + OffsetsAsc(ty.ptrs)[i]>>]

\* destroy the members of an object, last declared first
RECURSIVE destroy_members(_, _, _)
destroy_members(S, slots, i) ==
    IF i = 0 THEN S ELSE destroy_members(ptr_destroy(S, slots[i]), slots, i - 1)

\* ~T() destroys the deferred_ptrs outside the heap that the object owns
RECURSIVE destroy_owned(_, _)
destroy_owned(S, as) ==
    IF as = {} THEN S
    ELSE LET a == CHOOSE x \in as : TRUE
         IN  destroy_owned(ptr_destroy(S, a), as \ {a})

\* d.destroy(d.p): run ~T() on the object the record was stored for.  The
\* callers are ~cleanup_t and, through run_all, ~deferred_heap, which are
\* noexcept: an exception that leaves ~T() ends in std::terminate
run_destructor(S, d) ==
    IF S.fault THEN S
    ELSE LET S1 == [S EXCEPT !.dcount[d.obj] = @ + 1,
                             !.objs = Without(@, d.obj)]
             S2 == destroy_members(S1, MemberSlots(d.p), Cardinality(ty.ptrs))
             S3 == destroy_owned(S2, {q[2] : q \in {x \in owned : x[1] = d.obj}})
         IN  IF d.obj \in throwing THEN FaultAs(S3, "std::terminate") ELSE S3

RECURSIVE run_each(_, _, _)
run_each(S, ds, i) ==
    IF i > Len(ds) THEN S ELSE run_each(run_destructor(S, ds[i]), ds, i + 1)

\* destructors::run_all()
run_all(S) ==
    LET S1 == run_each(S, S.dtors, 1)
    IN  IF S1.fault THEN S1 ELSE [S1 EXCEPT !.dtors = <<>>]

\* a run(range) that leaves the records it has run in the table
run_keep_records(S, lo, hi) ==
    IF S.fault \/ hi[2] - lo[2] = 0 THEN S
    ELSE LET r == unstable_remove_copy_if(S.dtors, 0, Len(S.dtors), <<>>, lo, hi)
         IN  run_each(S, r.out, 1)

\* destructors::run(range) for the range [lo, hi) of bytes
run(S, lo, hi) ==
    IF S.fault \/ hi[2] - lo[2] = 0 THEN S
    ELSE LET r == unstable_remove_copy_if(S.dtors, 0, Len(S.dtors), <<>>, lo, hi)
             S1 == [S EXCEPT !.dtors = SubSeq(r.seq, 1, r.first)]
         IN  run_each(S1, r.out, 1)

\* destructors::store(span<T>(p, n)): one record per element, for a T that
\* is not trivially destructible; ids names the objects just constructed
RECURSIVE store(_, _, _, _)
store(ds, a, ids, i) ==
    IF ~ty.dtor \/ i > Len(ids) THEN ds
    ELSE store(Append(ds, [p |-> <<a[1], a[2] + (i - 1) * ty.size>>, obj |-> ids[i]]),
               a, ids, i + 1)

-----------------------------------------------------------------------------
(* deferred_heap: allocate, construct *)

\* allocate_from_existing_pages<T>(n): the page index and offset of the
\* first success (k = 0: none); a page that fails may lower its cached bound
RECURSIVE allocate_from_existing_pages(_, _, _)
allocate_from_existing_pages(S, n, k) ==
    IF k > Len(S.pages) THEN [S |-> S, k |-> 0, off |-> NullOff]
    ELSE LET r  == allocate(S.pages[k].page, ty.size, ty.align, n)
             S0 == [S EXCEPT !.pages[k].page = r.g]
             S1 == IF r.fault THEN FaultAs(S0, "gpage::allocate") ELSE S0
         IN  IF r.fault THEN [S |-> S1, k |-> 0, off |-> NullOff]
             ELSE IF r.ret # NullOff THEN [S |-> S1, k |-> k, off |-> r.ret]
             ELSE allocate_from_existing_pages(S1, n, k + 1)

\* history: the allocation just made at offset off of page pg
NewAlloc(pg, off, n) ==
    LET locs == (1 + (ty.size * n - 1) \div pg.page.min_alloc) + 1
    IN  [pg |-> pg.id, start |-> off \div pg.page.min_alloc, locs |-> locs,
         lo |-> off, hi |-> off + locs * pg.page.min_alloc, bytes |-> ty.size * n]

\* the end of deferred_heap::allocate<T>(n), from the result r of the last
\* allocate_from_existing_pages: add a page if needed.  Gives the state and
\* the address allocated.
allocate_expand(r, n) ==
    IF r.S.fault THEN [S |-> r.S, a |-> NULL]
    ELSE IF r.off # NullOff
    THEN [S |-> [r.S EXCEPT !.allocs = @ \cup {NewAlloc(r.S.pages[r.k], r.off, n)}],
          a |-> <<r.S.pages[r.k].id, r.off>>]
    ELSE LET id == r.S.npages + 1
             pg == dhpage_new(id, ty.size, n)
             q  == allocate(pg.page, ty.size, ty.align, n)
             S1 == [r.S EXCEPT !.npages = id,
                               !.pages = Append(@, [pg EXCEPT !.page = q.g])]
         IN  IF q.fault \/ q.ret = NullOff THEN [S |-> Fault(S1), a |-> NULL]
             ELSE [S |-> [S1 EXCEPT !.allocs = @ \cup {NewAlloc(pg, q.ret, n)}],
                   a |-> <<id, q.ret>>]

\* run T{} at address a: the lifetime of a new object begins, its
\* deferred_ptr members default-constructed (unattached, null)
RECURSIVE construct_members(_, _, _, _)
construct_members(S, slots, id, i) ==
    IF i > Len(slots) THEN S
    ELSE construct_members(ptr_construct(S, slots[i], NoHeap, NULL, id), slots, id, i + 1)

new_object(S, a) ==
    LET id == Len(S.dcount) + 1
        S1 == [S EXCEPT !.dcount = Append(@, 0), !.objs = (id :> a) @@ @]
    IN  construct_members(S1, MemberSlots(a), id, 1)

RECURSIVE new_objects(_, _, _, _)
new_objects(S, a, n, i) ==
    IF i >= n THEN S
    ELSE new_objects(new_object(S, <<a[1], a[2] + i * ty.size>>), a, n, i + 1)

\* a construct that does not flush the destructors pending in the range
construct_unflushed(S, a, n) ==
    IF S.fault THEN S
    ELSE LET first == Len(S.dcount)
             S2 == new_objects(S, a, n, 0)
         IN  IF S2.fault THEN S2
             ELSE [S2 EXCEPT !.dtors = store(@, a, [i \in 1 .. n |-> first + i], 1)]

\* construct<T>(p) for n = 1, construct_array<T>(p, n) otherwise (no
\* constructor throws): flush the destructors pending in the range,
\* construct, store the destructors
construct(S, a, n) ==
    IF S.fault THEN S
    ELSE LET S1 == run(S, a, <<a[1], a[2] + ty.size * n>>)
             first == Len(S1.dcount)
             S2 == new_objects(S1, a, n, 0)
         IN  IF S2.fault THEN S2
             ELSE [S2 EXCEPT !.dtors = store(@, a, [i \in 1 .. n |-> first + i], 1)]

\* an unwinding that destroys nothing
unwind_none(S, a, first, i) == S

\* the catch block of construct_array: while (i-- > 0) (p + i)->~T(), for the
\* elements built so far, which are the objects first+1 .. first+i
RECURSIVE unwind(_, _, _, _)
unwind(S, a, first, i) ==
    IF i = 0 THEN S
    ELSE unwind(run_destructor(S, [p |-> <<a[1], a[2] + (i - 1) * ty.size>>,
                                   obj |-> first + i]),
                a, first, i - 1)

\* construct_array<T>(p, n) when the constructor of element i throws: the
\* range is flushed, elements 0 .. i-1 are built and destroyed again, the
\* exception leaves the function before dtors.store
construct_array_throws(S, a, n, i) ==
    IF S.fault THEN S
    ELSE LET S1 == run(S, a, <<a[1], a[2] + ty.size * n>>)
             first == Len(S1.dcount)
         IN  unwind(new_objects(S1, a, i, 0), a, first, i)

\* storage of the temporary deferred_ptr<T> that allocate() returns
TempSlot == <<-2, -1>>

\* the rest of `dst = heap.make<T>()` / `dst = heap.make_array<T>(n)` once
\* allocate() has its storage at address r.a
make_finish(r, dst, n) ==
    LET S1 == ptr_construct(r.S, TempSlot, HeapH, r.a, 0)
        S2 == construct(S1, r.a, n)
        S3 == ptr_assign(S2, dst, [myheap |-> HeapH, p |-> r.a])
    IN  ptr_destroy(S3, TempSlot)

-----------------------------------------------------------------------------
(* deferred_heap: collect *)

\* a mark() that writes the level of a marked deferred_ptr again when it is
\* called in the second pass
mark_in_page_again(S, k, where, level) ==
    LET pg == S.pages[k]
        dp_where(e) == dh_contains_info(pg, pg.deferred_ptrs[e].p)
    IN  [S EXCEPT
            !.pages[k].live_starts = set(@, where.start_location, TRUE),
            !.pages[k].deferred_ptrs =
                [e \in DOMAIN @ |->
                    IF dp_where(e).start_location = where.start_location
                       /\ (@[e].level = 0 \/ level = 3)
                    THEN [@[e] EXCEPT !.level = level] ELSE @[e]]]

\* a mark() that sets the mark bit of the location pointed at, not of the
\* start of its allocation
mark_in_page_at_location(S, k, where, level) ==
    [S EXCEPT !.pages[k].live_starts = set(@, where.location, TRUE)]

\* the body of mark() for the page at index k that has p in range
mark_in_page(S, k, where, level) ==
    LET pg == S.pages[k]
        dp_where(e) == dh_contains_info(pg, pg.deferred_ptrs[e].p)
        ok(e) == /\ ~dp_where(e).fault
                 /\ dp_where(e).found \in {in_range_allocated_middle,
                                           in_range_allocated_start}
    IN  IF \E e \in DOMAIN pg.deferred_ptrs : ~ok(e) THEN Fault(S)
        ELSE [S EXCEPT
                !.pages[k].live_starts = set(@, where.start_location, TRUE),
                !.pages[k].deferred_ptrs =
                    [e \in DOMAIN @ |->
                        IF dp_where(e).start_location = where.start_location
                           /\ @[e].level = 0
                        THEN [@[e] EXCEPT !.level = level] ELSE @[e]]]

\* the loop of mark() over the pages, for the raw pointer p
RECURSIVE mark_from(_, _, _, _)
mark_from(S, p, level, k) ==
    IF k > Len(S.pages) THEN S
    ELSE LET where == dh_contains_info(S.pages[k], p)
         IN  IF where.fault THEN Fault(S)
             ELSE IF where.found = in_range_unallocated
             THEN FaultAs(S, "mark: unallocated")
             ELSE IF where.found # not_in_range THEN mark_in_page(S, k, where, level)
             ELSE mark_from(S, p, level, k + 1)

\* mark(p, level) for the deferred_ptr stored at address a; reading a
\* registered address where no deferred_ptr exists is undefined: the run ends
mark(S, a, level) ==
    IF S.fault THEN S
    ELSE IF a \notin DOMAIN S.sp THEN Fault(S)
    ELSE IF S.sp[a].p = NULL THEN S
    ELSE mark_from(S, S.sp[a].p, level, 1)

\* for (auto& p : roots) mark(*p, level): the outcome does not depend on the
\* order in which the set is walked
RECURSIVE mark_roots(_, _, _)
mark_roots(S, rs, level) ==
    IF rs = {} THEN S
    ELSE LET a == CHOOSE x \in rs : TRUE
         IN  mark_roots(mark(S, a, level), rs \ {a}, level)

\* one pass of the while loop of collect(), from entry e of page k on: mark
\* every deferred_ptr whose level is level - 1.  r.done is the flag `done`.
RECURSIVE mark_pass(_, _, _, _)
mark_pass(r, level, k, e) ==
    IF r.S.fault \/ k > Len(r.S.pages) THEN r
    ELSE IF e > Len(r.S.pages[k].deferred_ptrs) THEN mark_pass(r, level, k + 1, 1)
    ELSE LET dp == r.S.pages[k].deferred_ptrs[e]
         IN  IF dp.level = level - 1
             THEN mark_pass([S |-> mark(r.S, dp.p, level), done |-> FALSE], level, k, e + 1)
             ELSE mark_pass(r, level, k, e + 1)

\* while (!done) { done = true; ++level; ... }, entered with the last level used
RECURSIVE mark_loop(_, _)
mark_loop(S, level) ==
    LET r == mark_pass([S |-> S, done |-> TRUE], level + 1, 1, 1)
    IN  IF r.done \/ r.S.fault THEN r.S ELSE mark_loop(r.S, level + 1)

\* step 1 of collect(): reset the mark bits and the levels
reset_marks(S) ==
    [S EXCEPT !.pages = [k \in DOMAIN @ |->
        [@[k] EXCEPT !.live_starts = set_all(@, FALSE),
                     !.deferred_ptrs = [e \in DOMAIN @ |-> [@[e] EXCEPT !.level = 0]]]]]

\* every entry of every page's deferred_ptrs
Entries(S) ==
    UNION {{S.pages[k].deferred_ptrs[e] : e \in DOMAIN S.pages[k].deferred_ptrs}
           : k \in DOMAIN S.pages}

\* the deferred_ptrs that step 3 of collect() resets: those left at level 0
Unreached(S) == {x.p : x \in {y \in Entries(S) : y.level = 0}}

\* a collect() without its step 3
reset_skipped(S) == S

\* step 3 of collect(): reset every unreached deferred_ptr to null
reset_unreached(S) ==
    IF S.fault THEN S
    ELSE [S EXCEPT !.sp = [a \in DOMAIN @ |->
            IF a \in Unreached(S) THEN [@[a] EXCEPT !.p = NULL] ELSE @[a]]]

\* steps 1 to 3 of collect(): no user code runs in them
collect_mark(S) ==
    reset_unreached(mark_loop(mark_roots(reset_marks(S), S.roots[HeapH], 1), 1))

\* a sweep that stops after the first allocation it destroys
next_unreachable_first_only(pgs, k, i) ==
    LET c == UNION {{<<x, y>> : y \in {l \in 0 .. locations(pgs[x].page) - 1 :
                                        /\ location_info(pgs[x].page, l).is_start
                                        /\ ~get(pgs[x].live_starts, l)}}
                    : x \in DOMAIN pgs}
    IN  IF <<k, i>> # <<1, 0>> \/ c = {} THEN <<0, 0>>
        ELSE CHOOSE v \in c :
                \A w \in c : v[1] < w[1] \/ (v[1] = w[1] /\ v[2] <= w[2])

\* step 4 of collect(): the next allocation to destroy, scanning from
\* location i of the page at index k; <<0, 0>> when the scan ends
RECURSIVE next_unreachable(_, _, _)
next_unreachable(pgs, k, i) ==
    IF k > Len(pgs) THEN <<0, 0>>
    ELSE IF i >= locations(pgs[k].page) THEN next_unreachable(pgs, k + 1, 0)
    ELSE IF location_info(pgs[k].page, i).is_start /\ ~get(pgs[k].live_starts, i)
    THEN <<k, i>>
    ELSE next_unreachable(pgs, k, i + 1)

\* "find the end of the allocation": the next start after i, or the page's end
end_of_allocation(g, i) ==
    LET end_i == next_start_from(g, i + 1)
    IN  IF end_i < locations(g) THEN location_info(g, end_i).pointer ELSE g.total_size

\* the body of the sweep for the allocation starting at location i of the
\* page at index k: run its destructors, then deallocate it
sweep_one(S, k, i) ==
    LET pg    == S.pages[k]
        start == location_info(pg.page, i)
        S1    == run(S, <<pg.id, start.pointer>>, <<pg.id, end_of_allocation(pg.page, i)>>)
    IN  IF S1.fault THEN S1
        ELSE IF ~deallocate_expects(S1.pages[k].page, start.pointer) THEN Fault(S1)
        ELSE [S1 EXCEPT !.pages[k].page = deallocate(@, start.pointer),
                        !.allocs = {x \in @ : ~(x.pg = pg.id /\ x.start = i)}]

\* step 5 of collect(): drop the pages that is_empty() reports empty
RECURSIVE drop_empty_pages(_)
drop_empty_pages(S) ==
    LET empties == {k \in DOMAIN S.pages : is_empty(S.pages[k].page)}
    IN  IF \E k \in DOMAIN S.pages : is_empty(S.pages[k].page)
                                     /\ ~is_empty_ensures(S.pages[k].page)
        THEN Fault(S)
        ELSE IF empties = {} THEN S
        ELSE LET k == CHOOSE x \in empties : \A y \in empties : x <= y
             IN  IF S.pages[k].deferred_ptrs # <<>> THEN Fault(S)
                 ELSE drop_empty_pages(
                        [S EXCEPT !.pages = SubSeq(@, 1, k - 1) \o SubSeq(@, k + 1, Len(@))])

\* step 4 of collect(), all of it, from location i of the page at index k
RECURSIVE sweep_all(_, _, _)
sweep_all(S, k, i) ==
    LET v == next_unreachable(S.pages, k, i)
    IN  IF S.fault \/ v = <<0, 0>> THEN S
        ELSE sweep_all(sweep_one(S, v[1], v[2]), v[1], v[2] + 1)

\* deferred_heap::collect() as one call
collect(S) ==
    LET S1 == sweep_all(collect_mark(S), 1, 0)
    IN  IF S1.fault THEN S1 ELSE drop_empty_pages(S1)

\* ~deferred_heap(): detach every registered pointer, run every destructor,
\* release the pages
RECURSIVE detach_all(_, _)
detach_all(S, as) ==
    IF as = {} THEN S
    ELSE LET a == CHOOSE x \in as : TRUE
         IN  detach_all(ptr_detach(S, a), as \ {a})

\* ~deferred_heap() up to the call of dtors.run_all()
teardown_begin(S) ==
    LET S0 == [S EXCEPT !.is_destroying[HeapH] = TRUE]
    IN  detach_all(S0, S0.roots[HeapH] \cup {x.p : x \in Entries(S0)})

\* ~deferred_heap() from the call of dtors.run_all() on
teardown_end(S) ==
    LET S2 == run_all(S)
    IN  IF S2.fault THEN S2
        ELSE [S2 EXCEPT !.pages = <<>>, !.roots[HeapH] = {}, !.alive[HeapH] = FALSE,
                        !.sp = [a \in {x \in DOMAIN @ : x[1] < 0} |-> @[a]],
                        !.objs = <<>>]

destroy_heap(S) == teardown_end(teardown_begin(S))

-----------------------------------------------------------------------------
(* Spec: a program that uses heap H (and holds one pointer into heap G) *)

\* number of deferred_ptr variables the program has outside the heaps
NRoots == 2

\* number of objects the program constructs in heap H over a run
MaxObjs == 2

\* number of pages heap H creates over a run
MaxPages == 2

\* largest n of make_array<T>(n)
MaxArray == 2

\* the element types T: sizeof, alignof, the offsets of the deferred_ptr
\* members, and whether ~T() is not trivial
HeapTypes ==
    { [size |-> 256,  align |-> 8, ptrs |-> {}, dtor |-> TRUE],
      [size |-> 2000, align |-> 8, ptrs |-> {0}, dtor |-> TRUE] }

PtrOffsets == {-1, 1}

NoCont == [dst |-> NULL, n |-> 0]
NoSnap == [at |-> "none", reach |-> {}, allocs |-> {}, objs |-> <<>>, ptrs |-> {}]

CurS ==
    [pages |-> pages, npages |-> npages, roots |-> roots, dtors |-> dtors,
     alive |-> alive, is_destroying |-> is_destroying, sp |-> sp, objs |-> objs, dcount |-> dcount,
     allocs |-> allocs, fault |-> fault, why |-> why]

Commit(S) ==
    /\ pages' = S.pages
    /\ npages' = S.npages
    /\ roots' = S.roots
    /\ dtors' = S.dtors
    /\ alive' = S.alive
    /\ is_destroying' = S.is_destroying
    /\ sp' = S.sp
    /\ objs' = S.objs
    /\ dcount' = S.dcount
    /\ allocs' = S.allocs
    /\ fault' = S.fault
    /\ why' = S.why

(* history: reachability, read off the pointers and the allocations made *)

\* address p lies in the extent of allocation x (its trailing location included)
PointsInto(p, x) == p[1] = x.pg /\ x.lo <= p[2] /\ p[2] < x.hi

\* the non-null deferred_ptrs attached to heap H
Attached(S) == {a \in DOMAIN S.sp : S.sp[a].myheap = HeapH /\ S.sp[a].p # NULL}

\* one step of reachability from the set R of allocations
ReachStep(S, R) ==
    R \cup {x \in S.allocs :
              \E a \in Attached(S) :
                  /\ PointsInto(S.sp[a].p, x)
                  /\ \/ a[1] < 0
                     \/ \E y \in R : PointsInto(a, y)}

RECURSIVE ReachFrom(_, _)
ReachFrom(S, R) == IF ReachStep(S, R) = R THEN R ELSE ReachFrom(S, ReachStep(S, R))

\* the allocations reachable from the deferred_ptrs held outside the heap
Reachable(S) == ReachFrom(S, {})

TakeSnap(S) ==
    [at |-> "running", reach |-> Reachable(S), allocs |-> S.allocs, objs |-> S.objs,
     ptrs |-> Attached(S)]

(* what the program can name: its variables, and the members of an object *)
(* that one of its variables points to                                     *)

RootSlots == {RootSlot(i) : i \in 1 .. NRoots}

\* the deferred_ptr at a can be dereferenced: it points at a live object
\* in storage that is allocated
Derefable(a) ==
    /\ a \in DOMAIN sp
    /\ sp[a].myheap = HeapH
    /\ \E o \in DOMAIN objs : objs[o] = sp[a].p
    /\ find_dhpage_info(pages, sp[a].p).info.found > in_range_unallocated

Accessible ==
    (RootSlots \cap DOMAIN sp) \cup
    (DOMAIN sp \cap
       UNION {{MemberSlots(sp[a].p)[i] : i \in 1 .. Cardinality(ty.ptrs)}
              : a \in {r \in RootSlots : Derefable(r)}})

Idle == pc = "idle" /\ ~fault

\* the heap and the program's variables right after deferred_heap()
HeapInit ==
    /\ pages = <<>>
    /\ npages = 0
    /\ roots = [h \in {HeapH, HeapG} |-> IF h = HeapG THEN {SlotG} ELSE {}]
    /\ dtors = <<>>
    /\ alive = [h \in {HeapH, HeapG} |-> TRUE]
    /\ is_destroying = [h \in {HeapH, HeapG} |-> FALSE]
    /\ collect_before_expand = FALSE
    /\ sp = (SlotG :> [myheap |-> HeapG, p |-> FOREIGN, obj |-> 0])
    /\ objs = <<>>
    /\ dcount = <<>>
    /\ allocs = {}
    /\ pc = "idle"
    /\ cur = <<0, 0>>
    /\ cont = NoCont
    /\ snap = NoSnap
    /\ fault = FALSE
    /\ why = ""

\* no gpage is under test
NoPage ==
    /\ gp = gpage_new(MinChunk, MinChunk)
    /\ gp_allocs = <<>>
    /\ gp_last = [op |-> "new", ret |-> NullOff, bytes |-> 0, align |-> 1,
                  before |-> gp, undo |-> gp]
    /\ gp_fault = FALSE

\* no bitflags is under test
NoBits ==
    /\ flags = bitflags_new(1, FALSE)
    /\ flags_ops = 0

\* no destructor throws, no call has been made on the destructor table
NoDtors ==
    /\ throwing = {}
    /\ owned = {}
    /\ dt_last = [op |-> "new", lo |-> 0, hi |-> 0, before |-> <<>>, ran |-> <<>>,
                  ret |-> FALSE]

Init ==
    /\ NoPage
    /\ NoBits
    /\ NoDtors
    /\ ty \in HeapTypes
    /\ HeapInit

\* what every step of the program outside collect() leaves alone
Plain == /\ UNCHANGED <<pageVars, ty, collect_before_expand, pc, cur, cont>>
         /\ snap' = NoSnap

\* deferred_ptr<T> r;
NewDefault(i) ==
    /\ Idle /\ RootSlot(i) \notin DOMAIN sp
    /\ Commit(ptr_construct(CurS, RootSlot(i), NoHeap, NULL, 0))
    /\ Plain

\* deferred_ptr<T> r{src};
NewCopy(i, src) ==
    /\ Idle /\ RootSlot(i) \notin DOMAIN sp
    /\ Commit(ptr_construct(CurS, RootSlot(i), sp[src].myheap, sp[src].p, 0))
    /\ Plain

\* dst = src;
Assign(dst, src) ==
    /\ Idle /\ dst # src
    /\ Commit(ptr_assign(CurS, dst, sp[src]))
    /\ Plain

\* dst = nullptr;
Reset(dst) ==
    /\ Idle /\ sp[dst].p # NULL
    /\ Commit(ptr_reset(CurS, dst))
    /\ Plain

\* the variable goes out of scope
DestroyPtr(i) ==
    /\ Idle /\ RootSlot(i) \in DOMAIN sp
    /\ Commit(ptr_destroy(CurS, RootSlot(i)))
    /\ Plain

\* r += offset;
PtrAdd(a, offset) ==
    /\ Idle /\ alive[HeapH] /\ sp[a].myheap = HeapH /\ sp[a].p # NULL
    /\ Commit(ptr_add(CurS, a, offset))
    /\ Plain

\* collect() begins: steps 1 to 3, then the sweep starts at the first page
EnterCollect(S, c) ==
    /\ Commit(collect_mark(S))
    /\ pc' = "sweep"
    /\ cur' = <<1, 0>>
    /\ cont' = c
    /\ snap' = TakeSnap(S)

\* dst = heap.make<T>() (n = 1), dst = heap.make_array<T>(n): allocate from
\* the existing pages; if that fails and collect_before_expand is set,
\* collect() runs first and the call resumes after it
MakeCall(dst, n) ==
    /\ Idle /\ alive[HeapH]
    /\ LET r == allocate_from_existing_pages(CurS, n, 1)
       IN  IF r.off = NullOff /\ ~r.S.fault /\ collect_before_expand
           THEN EnterCollect(r.S, [dst |-> dst, n |-> n])
           ELSE /\ Commit(make_finish(allocate_expand(r, n), dst, n))
                /\ UNCHANGED <<pc, cur, cont>>
                /\ snap' = NoSnap
    /\ UNCHANGED <<pageVars, ty, collect_before_expand>>

\* the calls of make of the program: the objects and pages it makes are bounded
Make(dst, n) ==
    /\ Len(dcount) + n <= MaxObjs /\ npages < MaxPages
    /\ MakeCall(dst, n)

\* the call of make resumes after its collect(): allocate again, expand if
\* needed.  Writing to dst after its storage was released is undefined.
MakeResume ==
    /\ pc = "resume" /\ ~fault
    /\ LET r == allocate_from_existing_pages(CurS, cont.n, 1)
       IN  IF cont.dst[1] > 0 /\ find_dhpage_of(pages, cont.dst) = 0
           THEN Commit(Fault(CurS))
           ELSE Commit(make_finish(allocate_expand(r, cont.n), cont.dst, cont.n))
    /\ pc' = "idle"
    /\ cont' = NoCont
    /\ snap' = NoSnap
    /\ UNCHANGED <<pageVars, ty, collect_before_expand, cur>>

\* the allocator adapter's construct(p) on the slot of a live object
ConstructAt(a) ==
    /\ Idle /\ alive[HeapH] /\ Derefable(a)
    /\ Len(dcount) < MaxObjs
    /\ Commit(construct(CurS, sp[a].p, 1))
    /\ Plain

\* heap.collect()
CollectStart ==
    /\ Idle /\ alive[HeapH]
    /\ EnterCollect(CurS, NoCont)
    /\ UNCHANGED <<pageVars, ty, collect_before_expand>>

\* step 4 of collect(), one allocation: its destructors run, it is deallocated
SweepStep ==
    /\ pc = "sweep" /\ ~fault
    /\ LET v == next_unreachable(pages, cur[1], cur[2])
       IN  /\ v # <<0, 0>>
           /\ Commit(sweep_one(CurS, v[1], v[2]))
           /\ cur' = <<v[1], v[2] + 1>>
    /\ UNCHANGED <<pageVars, ty, collect_before_expand, pc, cont, snap>>

\* the sweep is over: step 5, and collect() returns
CollectFinish ==
    /\ pc = "sweep" /\ ~fault
    /\ next_unreachable(pages, cur[1], cur[2]) = <<0, 0>>
    /\ Commit(drop_empty_pages(CurS))
    /\ pc' = IF cont = NoCont THEN "idle" ELSE "resume"
    /\ cur' = <<0, 0>>
    /\ snap' = [snap EXCEPT !.at = "returned"]
    /\ UNCHANGED <<pageVars, ty, collect_before_expand, cont>>

\* heap H goes out of scope
DestroyHeap ==
    /\ Idle /\ alive[HeapH]
    /\ Commit(destroy_heap(CurS))
    /\ snap' = [TakeSnap(CurS) EXCEPT !.at = "destroyed"]
    /\ UNCHANGED <<pageVars, ty, collect_before_expand, pc, cur, cont>>

SetCollectBeforeExpand(enable) ==
    /\ Idle /\ alive[HeapH] /\ collect_before_expand # enable
    /\ collect_before_expand' = enable
    /\ snap' = NoSnap
    /\ UNCHANGED <<pageVars, ty, pages, npages, roots, dtors, alive, is_destroying,
                   sp, objs, dcount, allocs, pc, cur, cont, fault, why>>

Next ==
    \/ \E i \in 1 .. NRoots : NewDefault(i)
    \/ \E i \in 1 .. NRoots, src \in Accessible \cup {SlotG} : NewCopy(i, src)
    \/ \E dst \in Accessible, src \in Accessible \cup {SlotG} : Assign(dst, src)
    \/ \E dst \in Accessible : Reset(dst)
    \/ \E i \in 1 .. NRoots : DestroyPtr(i)
    \/ \E a \in RootSlots \cap DOMAIN sp, offset \in PtrOffsets : PtrAdd(a, offset)
    \/ \E dst \in Accessible, n \in 1 .. MaxArray : Make(dst, n)
    \/ MakeResume
    \/ \E a \in RootSlots : ConstructAt(a)
    \/ CollectStart
    \/ SweepStep
    \/ CollectFinish
    \/ DestroyHeap
    \/ SetCollectBeforeExpand(TRUE)

Spec == Init /\ [][Next]_vars

-----------------------------------------------------------------------------
(* Properties of the heap, under Spec *)

\* the bits of allocation x are still set in a page of the heap
StorageHeld(x) ==
    \E k \in DOMAIN pages :
        /\ pages[k].id = x.pg
        /\ get(pages[k].page.starts, x.start)
        /\ \A l \in x.start .. (x.start + x.locs - 1) : get(pages[k].page.inuse, l)

\* no page of the heap has allocation x any more
StorageReleased(x) ==
    \A k \in DOMAIN pages :
        pages[k].id = x.pg =>
            /\ ~get(pages[k].page.starts, x.start)
            /\ \A l \in x.start .. (x.start + x.locs - 1) : ~get(pages[k].page.inuse, l)

\* the destructor table holds a record for object o
HasRecord(o) == \E i \in DOMAIN dtors : dtors[i].obj = o

\* the objects of O (id -> address) that lie in allocation x
ObjectsIn(x, O) == {o \in DOMAIN O : PointsInto(O[o], x)}

\* object o is alive: constructed, not destroyed, its storage still allocated
IsAlive(o) ==
    /\ o \in DOMAIN objs
    /\ dcount[o] = 0
    /\ find_dhpage_info(pages, objs[o]).info.found > in_range_unallocated

\* C1: an allocation that is reachable when collect() starts is neither
\* destroyed nor deallocated by that collect(): none of its destructors run,
\* its destructor records stay in the table, its starts/inuse bits stay set.
C1_ReachableSurvivesCollect ==
    snap.at \in {"running", "returned"} =>
        \A x \in snap.reach :
            /\ StorageHeld(x)
            /\ \A o \in ObjectsIn(x, snap.objs) :
                  o \in DOMAIN objs /\ dcount[o] = 0 /\ HasRecord(o)

\* C2: when collect() returns, every allocation that was not reachable when
\* it started (cycles included) has had each of its registered destructors
\* run and its storage deallocated, and the objects still alive are exactly
\* the objects of the reachable allocations.
C2_UnreachableCollected ==
    (snap.at = "returned" /\ ~fault) =>
        /\ \A x \in snap.allocs \ snap.reach :
              /\ StorageReleased(x)
              /\ x \notin allocs
              /\ \A o \in ObjectsIn(x, snap.objs) : dcount[o] = 1 /\ ~HasRecord(o)
        /\ \A o \in DOMAIN snap.objs :
              IsAlive(o) <=> \E x \in snap.reach : PointsInto(snap.objs[o], x)

\* the registered interior deferred_ptrs stored in an allocation that the
\* mark phase did not mark
UnmarkedEntries ==
    UNION {{pages[k].deferred_ptrs[e].p : e \in
              {d \in DOMAIN pages[k].deferred_ptrs :
                 ~get(pages[k].live_starts,
                      dh_contains_info(pages[k], pages[k].deferred_ptrs[d].p).start_location)}}
           : k \in DOMAIN pages}

\* C3: in every collect(), from before its first destructor runs until its
\* sweep ends, every registered interior deferred_ptr stored in an unmarked
\* allocation is null and still attached: a destructor of the sweep reads
\* null from every deferred_ptr member of an object about to be destroyed.
C3_UnreachedAreNullInSweep ==
    (pc = "sweep" /\ ~fault) =>
        \A a \in UnmarkedEntries :
            a \in DOMAIN sp /\ sp[a].p = NULL /\ sp[a].myheap = HeapH

\* C3 witness: the sweep has not run a destructor yet, and two unreachable
\* allocations hold registered deferred_ptrs that were not null when
\* collect() started
C3_Witness ==
    /\ pc = "sweep" /\ ~fault /\ cur = <<1, 0>>
    /\ \A o \in DOMAIN snap.objs : dcount[o] = 0
    /\ \E a, b \in UnmarkedEntries \cap snap.ptrs :
          a # b /\ sp[a].p = NULL /\ sp[b].p = NULL

\* C4: every attached deferred_ptr of heap H whose raw pointer is not null
\* points to a location that is in use in one of the pages of H, so mark()
\* never meets in_range_unallocated.  Stated for the element type of 2000
\* bytes, whose pages have 5 locations: there is_empty() is exact, and no
\* page is dropped while it holds an allocation (see C1).
C4_AttachedPointIntoInUse ==
    ty.size = 2000 =>
        /\ why # "mark: unallocated"
        /\ \A a \in DOMAIN sp :
              (sp[a].myheap = HeapH /\ sp[a].p # NULL) =>
                  find_dhpage_info(pages, sp[a].p).info.found
                      \in {in_range_allocated_middle, in_range_allocated_start}

\* C5: the destructor of each constructed object is invoked at most once,
\* and exactly once by the time the heap has been destroyed.
C5_DestructorsRunOnce ==
    /\ \A o \in DOMAIN dcount : dcount[o] <= 1
    /\ (~alive[HeapH] /\ ~fault) => \A o \in DOMAIN dcount : dcount[o] = 1

\* C5 witness: the heap is gone; one object was destroyed by a collect() or
\* by a construct on its slot before that, another by the heap's destructor
C5_Witness ==
    /\ snap.at = "destroyed" /\ ~fault
    /\ \E o \in DOMAIN dcount : o \notin DOMAIN snap.objs
    /\ snap.objs # <<>>

\* C6: after heap H is destroyed every deferred_ptr that was attached to it
\* is detached and null, and no later destruction or assignment of a
\* deferred_ptr calls into the destroyed heap.
C6_DetachedAfterHeapDestroyed ==
    /\ why # "destroyed heap"
    /\ ~alive[HeapH] =>
          \A a \in DOMAIN sp :
              /\ sp[a].myheap # HeapH
              /\ sp[a].myheap = NoHeap => sp[a].p = NULL

\* C6 witness: the heap has just been destroyed while deferred_ptrs attached
\* to it, not null, existed outside it; they still exist
C6_Witness ==
    /\ snap.at = "destroyed" /\ ~fault
    /\ \E a \in snap.ptrs \cap DOMAIN sp : a[1] < 0

\* how often address a is registered with heap H
RegCount(a) ==
    (IF a \in roots[HeapH] THEN 1 ELSE 0) +
    Cardinality({<<k, e>> \in UNION {{<<j, d>> : d \in DOMAIN pages[j].deferred_ptrs}
                                      : j \in DOMAIN pages}
                   : pages[k].deferred_ptrs[e].p = a})

\* every address registered with heap H
Registered ==
    roots[HeapH] \cup UNION {{pages[k].deferred_ptrs[e].p : e \in DOMAIN pages[k].deferred_ptrs}
                             : k \in DOMAIN pages}

\* C7: between public operations, a deferred_ptr has heap == H iff its
\* address is registered with H, and then exactly once: in the roots if its
\* storage lies outside every page of H, otherwise in the deferred_ptrs list
\* of the page that contains its storage.
C7_RegisteredIffAttached ==
    (pc = "idle" /\ ~fault) =>
        /\ Registered = {a \in DOMAIN sp : sp[a].myheap = HeapH}
        /\ \A a \in Registered :
              /\ RegCount(a) = 1
              /\ IF find_dhpage_of(pages, a) = 0
                 THEN a \in roots[HeapH]
                 ELSE \E e \in DOMAIN pages[find_dhpage_of(pages, a)].deferred_ptrs :
                         pages[find_dhpage_of(pages, a)].deferred_ptrs[e].p = a

\* C7 witness: a root and a member of an object, both attached, after a
\* collect() and with a detached deferred_ptr next to them
C7_Witness ==
    /\ pc = "idle" /\ ~fault /\ snap.at = "returned"
    /\ \E a, b \in Registered : a[1] < 0 /\ b[1] > 0
    /\ \E c \in DOMAIN sp : sp[c].myheap = NoHeap

\* C8: a deferred_ptr attached to H keeps the handle H across every step
\* while H lives; an assignment from a deferred_ptr of another heap is
\* rejected as a contract violation, so no deferred_ptr attached to H ever
\* holds an address inside another heap.
C8_HandleStaysNoForeign ==
    [][ \A a \in DOMAIN sp' :
          /\ (a \in DOMAIN sp /\ sp[a].myheap = HeapH /\ sp'[a].obj = sp[a].obj
                 /\ alive'[HeapH])
                => sp'[a].myheap = HeapH
          /\ sp'[a].myheap = HeapH => sp'[a].p # FOREIGN ]_vars

\* C8 witness: an assignment across heaps has been rejected
C8_Witness ==
    /\ fault /\ why = "assignment across heaps"
    /\ \E a \in DOMAIN sp : sp[a].myheap = HeapH /\ sp[a].p = NULL
-----------------------------------------------------------------------------
(* SpecPage: one gpage, driven through allocate and deallocate *)

\* <<desired total size, chunk size>> of the page under test
PageConfigs == {<<32, 4>>, <<30, 4>>, <<24, 3>>}

\* <<sizeof(T), alignof(T)>> of the requests
PageTypes == {<<1, 1>>, <<4, 4>>, <<8, 8>>, <<12, 4>>}

InitPage ==
    /\ \E c \in PageConfigs : gp = gpage_new(c[1], c[2])
    /\ gp_allocs = <<>>
    /\ gp_last = [op |-> "new", ret |-> NullOff, bytes |-> 0, align |-> 1,
                  before |-> gp, undo |-> gp]
    /\ gp_fault = FALSE
    /\ NoBits
    /\ NoDtors
    /\ ty = CHOOSE t \in HeapTypes : TRUE
    /\ HeapInit

PageAllocate(t, n) ==
    /\ ~gp_fault
    /\ LET r == allocate(gp, t[1], t[2], n)
           locs == (1 + (t[1] * n - 1) \div gp.min_alloc) + 1
       IN  /\ gp' = r.g
           /\ gp_fault' = r.fault
           /\ gp_last' = [op |-> "allocate", ret |-> r.ret, bytes |-> t[1] * n,
                           align |-> t[2], before |-> gp, undo |-> gp]
           /\ gp_allocs' = IF r.ret = NullOff THEN gp_allocs
                           ELSE (r.ret \div gp.min_alloc) :> locs @@ gp_allocs
    /\ UNCHANGED <<flags, flags_ops, throwing, owned, dt_last, heapVars>>

PageDeallocate(off) ==
    /\ ~gp_fault
    /\ deallocate_expects(gp, off)
    /\ gp' = deallocate(gp, off)
    /\ gp_last' = [op |-> "deallocate", ret |-> off, bytes |-> 0, align |-> 1,
                  before |-> gp,
                  undo |-> IF gp_last.op = "allocate" /\ gp_last.ret = off
                           THEN gp_last.before ELSE gp]
    /\ gp_allocs' = [i \in DOMAIN gp_allocs \ {off \div gp.min_alloc} |-> gp_allocs[i]]
    /\ UNCHANGED <<gp_fault, flags, flags_ops, throwing, owned, dt_last, heapVars>>

NextPage ==
    \/ \E t \in PageTypes, n \in 1 .. MaxCount : PageAllocate(t, n)
    \/ \E i \in DOMAIN gp_allocs : PageDeallocate(i * gp.min_alloc)

SpecPage == InitPage /\ [][NextPage]_vars

-----------------------------------------------------------------------------
(* Properties of the gpage, under SpecPage *)

\* the start locations of the page, read off its starts bits
PageStarts == {i \in 0 .. locations(gp) - 1 : get(gp.starts, i)}

\* the next start after i, or L
NextStartAfter(i) ==
    IF \E k \in PageStarts : k > i
    THEN CHOOSE k \in PageStarts : k > i /\ \A m \in PageStarts : m > i => k <= m
    ELSE locations(gp)

\* C9: after any sequence of allocate and valid deallocate calls, starts[i]
\* implies inuse[i]; the starts are the allocations made and not released;
\* for every start i with next start j (or L), the locations in use within
\* [i, j) are exactly the window [i, i+m), m being the location count of the
\* allocation made at i; so no location lies in two live allocations.
C9_StartsInUseWindows ==
    /\ \A i \in 0 .. locations(gp) - 1 : get(gp.starts, i) => get(gp.inuse, i)
    /\ PageStarts = DOMAIN gp_allocs
    /\ \A i \in PageStarts :
          /\ i + gp_allocs[i] <= NextStartAfter(i)
          /\ \A k \in i .. NextStartAfter(i) - 1 :
                get(gp.inuse, k) <=> k < i + gp_allocs[i]
    /\ \A i, k \in PageStarts : i < k => i + gp_allocs[i] <= k

\* C9 witness: a deallocate has just left a hole below a live allocation,
\* which is followed by another one
C9_Witness ==
    /\ gp_last.op = "deallocate"
    /\ ~gp_fault
    /\ \E i, k \in DOMAIN gp_allocs : 0 < i /\ i < k /\ ~get(gp.inuse, i - 1)

\* C10: allocate<T>(n) either succeeds or returns null leaving inuse and
\* starts as they were, and never ends in a contract failure (a read of a
\* bit outside [0, L)), whatever the size of the request.
C10_AllocateNeverFaults ==
    /\ ~gp_fault
    /\ (gp_last.op = "allocate" /\ gp_last.ret = NullOff) =>
          (gp.inuse = gp_last.before.inuse /\ gp.starts = gp_last.before.starts)

\* would the scan of allocate<T>(n) find a window, were the hint not consulted
scan_would_fit(g, size, alignment, n) ==
    LET bytes_needed     == size * n
        locations_step   == 1 + (alignment - 1) \div g.min_alloc
        locations_needed == (1 + (bytes_needed - 1) \div g.min_alloc) + 1
    IN  /\ ~std_align_fails(alignment, bytes_needed, g.total_size)
        /\ locations_needed <= locations(g)
        /\ scan(g.inuse, 0, scan_end(g, locations_needed), locations_step,
                locations_needed).kind = "fit"

\* C11: in every state of the page, a request of B bytes for which the scan
\* would find a fitting window has B <= current_known_request_bound: the
\* fast-fail test B > hint never rejects a request the scan would satisfy.
C11_HintNeverRejectsFit ==
    ~gp_fault =>
        \A t \in PageTypes, n \in 1 .. MaxCount :
            scan_would_fit(gp, t[1], t[2], n) =>
                t[1] * n <= gp.current_known_request_bound

\* C12: every address a successful allocate<T>(n) returns lies at an offset
\* from the base of the storage that is a multiple of alignof(T), whatever
\* the chunk size of the page is.
C12_ReturnedOffsetAligned ==
    (gp_last.op = "allocate" /\ gp_last.ret # NullOff) =>
        gp_last.ret % gp_last.align = 0

\* C17: a successful allocate immediately followed by deallocate of the
\* address it returned leaves inuse and starts as they were before the
\* allocate.
C17_AllocateDeallocateRestores ==
    (gp_last.op = "deallocate" /\ gp_last.undo # gp_last.before) =>
        /\ gp.inuse = gp_last.undo.inuse
        /\ gp.starts = gp_last.undo.starts

\* C17 witness: the pair was made between two live allocations
C17_Witness ==
    /\ gp_last.op = "deallocate"
    /\ gp_last.undo # gp_last.before
    /\ \E i, k \in DOMAIN gp_allocs :
          i * gp.min_alloc < gp_last.ret /\ gp_last.ret < k * gp.min_alloc

\* C18: contains_info(p) reports not_in_range iff p lies outside the extent
\* of the page; in_range_unallocated iff p's location is not in use;
\* in_range_allocated_start with start_location = location(p) iff the starts
\* bit of p's location is set; and otherwise in_range_allocated_middle with
\* start_location the start of the live allocation whose window contains
\* p's location.  The address a successful allocate returned is reported as
\* in_range_allocated_start at its own location.
C18_ContainsInfoClassifies ==
    ~gp_fault =>
      /\ \A off \in -1 .. gp.total_size :
            LET r   == contains_info(gp, off)
                loc == off \div gp.min_alloc
                inr == 0 <= off /\ off < gp.total_size
            IN  /\ ~r.fault
                /\ r.found = not_in_range <=> ~inr
                /\ inr =>
                     /\ r.location = loc
                     /\ r.found = in_range_unallocated <=> ~get(gp.inuse, loc)
                     /\ (r.found = in_range_allocated_start /\ r.start_location = loc)
                           <=> get(gp.starts, loc)
                     /\ (get(gp.inuse, loc) /\ ~get(gp.starts, loc)) =>
                           /\ r.found = in_range_allocated_middle
                           /\ r.start_location \in DOMAIN gp_allocs
                           /\ r.start_location < loc
                           /\ loc < r.start_location + gp_allocs[r.start_location]
      /\ (gp_last.op = "allocate" /\ gp_last.ret # NullOff) =>
            LET r == contains_info(gp, gp_last.ret)
            IN  /\ r.found = in_range_allocated_start
                /\ r.location = gp_last.ret \div gp.min_alloc
                /\ r.start_location = r.location

\* C18 witness: an address at least two locations inside an allocation that
\* follows another one, with a free location behind it
C18_Witness ==
    /\ ~gp_fault
    /\ \E off \in 0 .. gp.total_size - 1 :
          LET r == contains_info(gp, off)
          IN  /\ r.found = in_range_allocated_middle
              /\ 0 < r.start_location
              /\ r.start_location + 2 <= r.location
              /\ off % gp.min_alloc # 0
              /\ off + gp.min_alloc < gp.total_size
              /\ contains_info(gp, off + gp.min_alloc).found = in_range_unallocated

-----------------------------------------------------------------------------
(* A program that works on one bitflags: it is constructed with some size *)
(* and initial value, and then its flags are set singly, by range and all *)
(* together.                                                               *)

\* number of calls made on the bitflags
MaxBitOps == 3

\* the sizes of the bitflags: within one unit, exactly one unit, one bit
\* more than a unit, exactly two units
BitSizes == {5, 32, 33, 64}

\* the positions used in the calls: around the ends of the units
BitPositions == {0, 1, 4, 31, 32, 63}

InitBits ==
    /\ \E n \in BitSizes, value \in BOOLEAN : flags = bitflags_new(n, value)
    /\ flags_ops = 0
    /\ NoPage
    /\ NoDtors
    /\ ty = CHOOSE t \in HeapTypes : TRUE
    /\ HeapInit

BitsDone ==
    /\ flags_ops' = flags_ops + 1
    /\ UNCHANGED <<gp, gp_allocs, gp_last, gp_fault, throwing, owned, dt_last, heapVars>>

\* set(at, value)
BitsSet(at, value) ==
    /\ flags_ops < MaxBitOps
    /\ get_in_range(flags, at)
    /\ flags' = set(flags, at, value)
    /\ BitsDone

\* set(from, to, value)
BitsSetRange(from, to, value) ==
    /\ flags_ops < MaxBitOps
    /\ 0 <= from /\ from <= to /\ to <= flags.size
    /\ flags' = set_range(flags, from, to, value)
    /\ BitsDone

\* set_all(value)
BitsSetAll(value) ==
    /\ flags_ops < MaxBitOps
    /\ flags' = set_all(flags, value)
    /\ BitsDone

NextBits ==
    \/ \E at \in BitPositions, value \in BOOLEAN : BitsSet(at, value)
    \/ \E from, to \in BitPositions \cup {flags.size}, value \in BOOLEAN :
          BitsSetRange(from, to, value)
    \/ \E value \in BOOLEAN : BitsSetAll(value)

SpecBits == InitBits /\ [][NextBits]_vars

-----------------------------------------------------------------------------
(* Properties of bitflags, under SpecBits *)

\* C20: for every size n > 0 of the bitflags, the multiples of the unit
\* width included, and every content, all_false() is true iff get(i) is
\* false for every i in [0, n).
C20_AllFalseIffNoFlag ==
    all_false(flags) <=> \A i \in 0 .. flags.size - 1 : ~get(flags, i)

-----------------------------------------------------------------------------
(* Further properties of the heap, under Spec *)

\* C19: in every quiescent state of the heap, the address of every record
\* of the destructor table lies in an in-use location of a page of this
\* heap, inside a live allocation whose starts bit is set at or before that
\* location: no record refers to free storage or to a dropped page.
C19_RecordsInLiveAllocations ==
    Idle =>
        \A i \in DOMAIN dtors :
            LET r == find_dhpage_info(pages, dtors[i].p)
            IN  /\ r.info.found \in {in_range_allocated_start, in_range_allocated_middle}
                /\ r.page \in DOMAIN pages
                /\ get(pages[r.page].page.starts, r.info.start_location)
                /\ r.info.start_location <= r.info.location

\* a step of the program that is a construct() through the allocator
\* adapter: an object is constructed in storage that was already allocated
ConstructStep ==
    /\ pc = "idle" /\ pc' = "idle" /\ ~fault /\ ~fault'
    /\ allocs' = allocs
    /\ Len(dcount') = Len(dcount) + 1

\* C15: when construct is called at address a while the destructor table
\* holds pending records with addresses in [a, a+B), each of them is removed
\* and its destructor is run exactly once before the new constructor starts;
\* when construct returns, the table holds in [a, a+B) only the record of
\* the new object.
C15_ConstructFlushesRange ==
    [][ConstructStep =>
        LET new == Len(dcount')
            a   == objs'[new]
            hi  == <<a[1], a[2] + ty.size>>
        IN  /\ \A i \in DOMAIN dtors :
                  in_range(dtors[i], a, hi) =>
                      /\ dcount'[dtors[i].obj] = dcount[dtors[i].obj] + 1
                      /\ dtors[i].obj \notin DOMAIN objs'
                      /\ \A k \in DOMAIN dtors' : dtors'[k].obj # dtors[i].obj
            /\ \A o \in DOMAIN dcount :
                  (\A i \in DOMAIN dtors : dtors[i].obj # o) => dcount'[o] = dcount[o]
            /\ Cardinality({k \in DOMAIN dtors' : in_range(dtors'[k], a, hi)}) = 1
            /\ \A k \in DOMAIN dtors' :
                  in_range(dtors'[k], a, hi) => dtors'[k].obj = new /\ dtors'[k].p = a
            /\ \A i \in DOMAIN MemberSlots(a) :
                  /\ MemberSlots(a)[i] \in DOMAIN sp'
                  /\ sp'[MemberSlots(a)[i]].obj = new
    ]_vars

\* C15 witness: the first object, made by make<T>(), was destroyed when a
\* second one was constructed in its place; only the second has a record
C15_Witness ==
    /\ Idle /\ alive[HeapH]
    /\ npages = 1 /\ Cardinality(allocs) = 1
    /\ Len(dcount) = 2 /\ dcount[1] = 1 /\ dcount[2] = 0
    /\ 2 \in DOMAIN objs /\ objs[2] = <<1, 0>>
    /\ ty.ptrs # {}
    /\ HasRecord(2) /\ ~HasRecord(1)

-----------------------------------------------------------------------------
(* A program that only allocates: one root r, which receives the result of *)
(* every make<T>() and make_array<T>(n), is reset, and is all that keeps   *)
(* an allocation reachable; collect() is called at will and, once          *)
(* collect_before_expand is set, by allocate() itself.                     *)

\* number of objects the program constructs
MaxAllocObjs == 7

\* the n of make<T>() and make_array<T>(n): one object, and an array as
\* large as a page made for one object
AllocCounts == {1, 5}

MakeAlloc(n) ==
    /\ RootSlot(1) \in DOMAIN sp
    /\ Len(dcount) + n <= MaxAllocObjs
    /\ MakeCall(RootSlot(1), n)

NextAlloc ==
    \/ NewDefault(1)
    \/ \E n \in AllocCounts : MakeAlloc(n)
    \/ MakeResume
    \/ (RootSlot(1) \in DOMAIN sp /\ Reset(RootSlot(1)))
    \/ CollectStart
    \/ SweepStep
    \/ CollectFinish
    \/ SetCollectBeforeExpand(TRUE)

SpecAlloc == Init /\ [][NextAlloc]_vars

-----------------------------------------------------------------------------
(* Properties of allocation, under SpecAlloc *)

\* C13: in every state of the heap and for every n > 0, make<T>() and
\* make_array<T>(n) complete without a contract failure and yield a non-null
\* deferred_ptr attached to this heap that points at the start of a fresh
\* allocation; when a page is added for the request, it has the size
\* max(3*sizeof(T)*n, 8192) and the chunk size max(sizeof(T), 4).
C13_MakeYieldsFreshAllocation ==
    [][/\ (~fault /\ fault') => why' # "gpage::allocate"
       /\ (~fault' /\ allocs' \ allocs # {}) =>
             \E x \in allocs' \ allocs :
                /\ sp'[RootSlot(1)].p = <<x.pg, x.lo>>
                /\ sp'[RootSlot(1)].myheap = HeapH
                /\ \A y \in allocs : y.pg = x.pg => (x.hi <= y.lo \/ y.hi <= x.lo)
                /\ npages' > npages =>
                      LET g == pages'[Len(pages')].page
                          t == Max(GrowthFactor * x.bytes, DefaultPageSize)
                      IN  /\ pages'[Len(pages')].id = x.pg
                          /\ g.min_alloc = Max(ty.size, MinChunk)
                          /\ t <= g.total_size /\ g.total_size < t + g.min_alloc
    ]_vars

\* C14: with collect_before_expand set and a page that holds exactly k
\* objects, after k calls of make<T>(), all roots dropped, and one more
\* make<T>() (no collect() called by the program), exactly one object
\* survives and no new page has been created.  The step constrained is the
\* return of that last make<T>(), whose collect() has just run.  It is
\* stated for the element type whose pages have 5 locations and hold k = 2
\* objects; is_empty() is right about these pages.
C14_CollectBeforeExpandReusesPage ==
    [][(/\ pc = "resume" /\ ~fault /\ cont.n = 1
        /\ ty.size = 2000
        /\ snap.at = "returned" /\ snap.reach = {}
        /\ npages = 1
        /\ Cardinality(snap.allocs) = Len(dcount)
        /\ \A x \in snap.allocs : x.bytes = ty.size)
       => (/\ ~fault'
           /\ Cardinality({o \in DOMAIN objs' : dcount'[o] = 0}) = 1
           /\ npages' = npages)
    ]_vars

-----------------------------------------------------------------------------
(* Further properties of bitflags, under SpecBits *)

\* C21: for every content and all 0 <= lo <= hi <= n, find_next(lo, hi, v)
\* returns the smallest k in [lo, hi) with get(k) = v, or hi if there is
\* none, for v true and false, and for ranges that start, end or lie within
\* a partial unit.
C21_FindNextIsFirst ==
    \A lo \in 0 .. flags.size : \A hi \in lo .. flags.size : \A v \in BOOLEAN :
        LET r    == find_next(flags, lo, hi, v)
            hits == {k \in lo .. hi - 1 : get(flags, k) = v}
        IN  /\ ~r.fault
            /\ r.ret = IF hits = {} THEN hi
                       ELSE CHOOSE k \in hits : \A m \in hits : k <= m

\* C21 witness: in a bitflags of two units, a search that starts inside the
\* first unit finds its value inside the partial range of the second, and
\* one that lies within the first unit finds nothing
C21_Witness ==
    /\ flags.size = 64
    /\ flags_ops > 0
    /\ find_next(flags, 1, 63, TRUE).ret \in 33 .. 62
    /\ find_next(flags, 1, 31, TRUE).ret = 31
    /\ find_next(flags, 0, 64, FALSE).ret = 0

\* C22: for every content and all 0 <= lo <= hi <= n, after set(lo, hi, v)
\* every flag in [lo, hi) equals v and every flag outside keeps its value
\* (nothing changes when lo = hi), however the range lies with respect to
\* the unit boundaries.
\* The flags are compared unit by unit: bit b of unit u is flag 32u + b.
C22_SetRangeSetsExactlyRange ==
    \A lo \in 0 .. flags.size : \A hi \in lo .. flags.size : \A v \in BOOLEAN :
        LET after == set_range(flags, lo, hi, v)
            \* the bits of unit u (0-based) that lie in [lo, hi)
            in_range_of(u) == {b \in all_units : /\ lo <= u * bits_per_unit + b
                                                 /\ u * bits_per_unit + b < hi}
        IN  /\ after.size = flags.size
            /\ DOMAIN after.bits = DOMAIN flags.bits
            /\ \A u \in DOMAIN flags.bits :
                  after.bits[u] = IF v THEN flags.bits[u] \cup in_range_of(u - 1)
                                  ELSE flags.bits[u] \ in_range_of(u - 1)
            /\ lo = hi => after = flags

\* C22 witness: one call of set(from, to, true) on a bitflags of two units,
\* all false, has set a range that begins inside the first unit and ends
\* inside the second
C22_Witness ==
    /\ flags.size = 64
    /\ flags_ops = 1
    /\ ~get(flags, 0) /\ ~get(flags, 63)
    /\ get(flags, 31) /\ get(flags, 32) /\ get(flags, 40) /\ get(flags, 62)

-----------------------------------------------------------------------------
(* A program that works on the destructor table of a heap: objects of a   *)
(* pointer-free type are constructed in the slots of one piece of storage *)
(* (singly or as arrays), ranges of it are destroyed, and in the end all  *)
(* destructors are run.  At most one of the destructors throws.           *)

\* number of objects the program constructs
MaxDtorObjs == 4

\* number of object-sized slots of the storage
NSlots == 4

\* the address of slot k
SlotAddr(k) == <<1, k * ty.size>>

\* the objects whose destructors a loop over ds invokes, in order: the loop
\* ends with the first destructor that throws
RECURSIVE invoked(_, _)
invoked(ds, i) ==
    IF i > Len(ds) THEN <<>>
    ELSE IF ds[i].obj \in throwing THEN <<ds[i].obj>>
    ELSE <<ds[i].obj>> \o invoked(ds, i + 1)

InitDtors ==
    /\ NoPage
    /\ NoBits
    /\ throwing \in {{}} \cup {{o} : o \in 1 .. MaxDtorObjs}
    /\ owned = {}
    /\ dt_last = [op |-> "new", lo |-> 0, hi |-> 0, before |-> <<>>, ran |-> <<>>,
                  ret |-> FALSE]
    /\ ty = CHOOSE t \in HeapTypes : t.ptrs = {}
    /\ HeapInit

\* what a call on the table leaves alone
DtorsFrame ==
    UNCHANGED <<gp, gp_allocs, gp_last, gp_fault, flags, flags_ops, throwing, owned,
                ty, collect_before_expand, pc, cur, cont, snap>>

\* construct<T>(p) / construct_array<T>(p, n) at slot k: the range is
\* flushed, the objects are constructed, their destructors are stored
DtorsConstruct(k, n) ==
    /\ ~fault
    /\ k + n <= NSlots /\ Len(dcount) + n <= MaxDtorObjs
    /\ Commit(construct(CurS, SlotAddr(k), n))
    /\ dt_last' = [op |-> "construct", lo |-> k, hi |-> k + n,
                   before |-> dtors, ret |-> FALSE,
                   ran |-> invoked(unstable_remove_copy_if(dtors, 0, Len(dtors), <<>>,
                                       SlotAddr(k), SlotAddr(k + n)).out, 1)]
    /\ DtorsFrame

\* construct_array<T>(p, n) at slot k, the constructor of element i throws
\* (the destructors of the elements built before it do not)
DtorsConstructThrows(k, n, i) ==
    /\ ~fault
    /\ k + n <= NSlots /\ Len(dcount) + i <= MaxDtorObjs
    /\ throwing \cap (Len(dcount) + 1 .. Len(dcount) + i) = {}
    /\ Commit(construct_array_throws(CurS, SlotAddr(k), n, i))
    /\ dt_last' = [op |-> "construct throws", lo |-> k, hi |-> k + n,
                   before |-> dtors, ret |-> FALSE,
                   first |-> Len(dcount), built |-> i,
                   ran |-> invoked(unstable_remove_copy_if(dtors, 0, Len(dtors), <<>>,
                                       SlotAddr(k), SlotAddr(k + n)).out, 1)]
    /\ DtorsFrame

\* destroy_objects(range), i.e. dtors.run(range), for the slots [lo, hi)
DtorsRun(lo, hi) ==
    /\ ~fault /\ lo <= hi
    /\ Commit(run(CurS, SlotAddr(lo), SlotAddr(hi)))
    /\ LET to_destroy == unstable_remove_copy_if(dtors, 0, Len(dtors), <<>>,
                                                 SlotAddr(lo), SlotAddr(hi)).out
       IN  dt_last' = [op |-> "run", lo |-> lo, hi |-> hi, before |-> dtors,
                       ret |-> lo # hi /\ to_destroy # <<>>,
                       ran |-> IF lo = hi THEN <<>> ELSE invoked(to_destroy, 1)]
    /\ DtorsFrame

\* dtors.run_all(), as ~deferred_heap calls it
DtorsRunAll ==
    /\ ~fault /\ dtors # <<>>
    /\ Commit(run_all(CurS))
    /\ dt_last' = [op |-> "run_all", lo |-> 0, hi |-> NSlots,
                   before |-> dtors, ret |-> FALSE,
                   ran |-> invoked(dtors, 1)]
    /\ DtorsFrame

NextDtors ==
    \/ \E k \in 0 .. NSlots - 1, n \in 1 .. MaxCount : DtorsConstruct(k, n)
    \/ \E k \in 0 .. NSlots - 1, n \in 1 .. MaxCount, i \in 0 .. MaxCount - 1 :
          i < n /\ DtorsConstructThrows(k, n, i)
    \/ \E lo, hi \in 0 .. NSlots : DtorsRun(lo, hi)
    \/ DtorsRunAll

SpecDtors == InitDtors /\ [][NextDtors]_vars

-----------------------------------------------------------------------------
(* Properties of the destructor table, under SpecDtors *)

\* the records the table held before the last call whose address lies in
\* the range of that call
LastInRange ==
    {i \in DOMAIN dt_last.before :
        in_range(dt_last.before[i], SlotAddr(dt_last.lo), SlotAddr(dt_last.hi))}

\* C23: run_all() executes every record of the table exactly once, in
\* reverse insertion order (last inserted first), and leaves the table
\* empty.  Objects are numbered in the order of their construction, which
\* is the order in which their records are inserted.
C23_RunAllReverseOrder ==
    (dt_last.op = "run_all" /\ ~fault) =>
        /\ dtors = <<>>
        /\ Len(dt_last.ran) = Len(dt_last.before)
        /\ \A i \in DOMAIN dt_last.before : dcount[dt_last.before[i].obj] = 1
        /\ \A i, k \in DOMAIN dt_last.ran : i < k => dt_last.ran[i] > dt_last.ran[k]

\* C24: run(range) first removes from the table exactly the records whose
\* address lies in the range, leaving every other record in it exactly once
\* (order aside), and only then runs each removed destructor exactly once;
\* it returns true iff a record was removed.  The table is inspected also
\* in the state in which a destructor that throws has ended the program:
\* it is then already without all the records of the range.
C24_RunRemovesThenRuns ==
    dt_last.op = "run" =>
        /\ {dtors[i] : i \in DOMAIN dtors} =
              {dt_last.before[i] : i \in DOMAIN dt_last.before \ LastInRange}
        /\ Len(dtors) = Len(dt_last.before) - Cardinality(LastInRange)
        /\ ~fault =>
              /\ {dt_last.ran[i] : i \in DOMAIN dt_last.ran} =
                    {dt_last.before[i].obj : i \in LastInRange}
              /\ Len(dt_last.ran) = Cardinality(LastInRange)
              /\ \A i \in LastInRange : dcount[dt_last.before[i].obj] = 1
              /\ \A i \in DOMAIN dt_last.before \ LastInRange :
                    dcount[dt_last.before[i].obj] = 0
              /\ dt_last.ret <=> LastInRange # {}

\* C24 witness: a call has removed two records from the middle of a table
\* of four and has left the other two
C24_Witness ==
    /\ dt_last.op = "run" /\ ~fault
    /\ Len(dt_last.before) = 4 /\ Len(dtors) = 2
    /\ dt_last.before[1] = dtors[1]
    /\ 2 \in LastInRange /\ 3 \in LastInRange

\* C25: if one of the destructors extracted by run(range) throws, every
\* other extracted destructor is still run exactly once and the caller
\* goes on with its remaining work.
C25_ThrowingDestructorContained ==
    dt_last.op = "run" =>
        /\ ~fault
        /\ \A i \in LastInRange : dcount[dt_last.before[i].obj] = 1

\* C28: when the range of an array allocation of n elements is destroyed,
\* the destructors of the elements run in storage order, element 0 first,
\* whatever else the table holds and wherever the records of the array sit
\* in it.  The elements of an array are objects o, o+1, ... in storage
\* order.
C28_ArrayDestroyedInStorageOrder ==
    (/\ dt_last.op = "run" /\ ~fault
     /\ Cardinality(LastInRange) = dt_last.hi - dt_last.lo
     /\ \A i, k \in LastInRange :
           dt_last.before[k].obj - dt_last.before[i].obj =
             (dt_last.before[k].p[2] - dt_last.before[i].p[2]) \div ty.size)
    => \A i, k \in DOMAIN dt_last.ran : i < k => dt_last.ran[i] < dt_last.ran[k]

\* C26: if the construction of element i throws during make_array<T>(n),
\* exactly the elements already built (i-1 down to 0) are destroyed, the
\* exception reaches the caller (the program is not terminated), and the
\* destructor table holds no record for any element of the array: records
\* are stored only after all n elements have been constructed.
C26_ArrayConstructionUnwinds ==
    (/\ dt_last.op = "construct throws"
     /\ \A i \in LastInRange : dt_last.before[i].obj \notin throwing)
    => /\ ~fault
       /\ Len(dcount) = dt_last.first + dt_last.built
       /\ \A o \in dt_last.first + 1 .. Len(dcount) : dcount[o] = 1
       /\ \A k \in DOMAIN dtors :
             /\ dtors[k].obj <= dt_last.first
             /\ ~in_range(dtors[k], SlotAddr(dt_last.lo), SlotAddr(dt_last.hi))
       /\ {dtors[k] : k \in DOMAIN dtors} =
             {dt_last.before[i] : i \in DOMAIN dt_last.before \ LastInRange}

\* C26 witness: the third element of an array failed to construct, two
\* elements were unwound, and the table still holds an older record
C26_Witness ==
    /\ dt_last.op = "construct throws" /\ ~fault
    /\ dt_last.built = 2 /\ dt_last.hi - dt_last.lo = 3
    /\ dtors # <<>>

-----------------------------------------------------------------------------
(* Properties of deferred_ptr and of the heap in teardown, under Spec *)

\* C27: checked pointer arithmetic on a deferred_ptr completes without a
\* contract failure only if the pointer is non-null and either the current
\* and the resulting address lie within the same allocation, or the current
\* address is the start of an allocation and the result is exactly one
\* element past it; a step to before the start of the allocation fails.
\* The steps constrained are those that move a root by one element.
C27_ArithmeticStaysInAllocation ==
    [][\A a \in RootSlots :
         (/\ pc = "idle" /\ ~fault /\ ~fault'
          /\ a \in DOMAIN sp /\ a \in DOMAIN sp'
          /\ sp[a].myheap = HeapH /\ sp'[a].myheap = HeapH
          /\ sp[a].p # NULL /\ sp'[a].p[1] = sp[a].p[1]
          /\ sp'[a].p[2] - sp[a].p[2] \in {ty.size, -ty.size}
          /\ pages' = pages)
         => LET this_info == find_dhpage_info(pages, sp[a].p)
                temp_info == find_dhpage_info(pages, sp'[a].p)
            IN  \/ /\ this_info.info.found > in_range_unallocated
                   /\ temp_info.info.found > in_range_unallocated
                   /\ this_info.page = temp_info.page
                   /\ this_info.info.start_location = temp_info.info.start_location
                \/ /\ this_info.info.found = in_range_allocated_start
                   /\ sp'[a].p[2] = sp[a].p[2] + ty.size
    ]_vars

-----------------------------------------------------------------------------
(* SpecTeardown: a program whose destructors call into the heap while
   ~deferred_heap() is running them *)

\* ~deferred_heap() has set is_destroying and detached every pointer; the
\* destructors that run_all() invokes come next
TeardownBegin ==
    /\ Idle /\ alive[HeapH]
    /\ Commit(teardown_begin(CurS))
    /\ pc' = "destroying"
    /\ snap' = [NoSnap EXCEPT !.at = "teardown"]
    /\ UNCHANGED <<pageVars, ty, collect_before_expand, cur, cont>>

\* a destructor constructs a deferred_ptr attached to the heap in root slot i
TeardownEnregister(i) ==
    /\ pc = "destroying" /\ ~fault /\ RootSlot(i) \notin DOMAIN sp
    /\ Commit(ptr_construct(CurS, RootSlot(i), HeapH, NULL, 0))
    /\ snap' = [NoSnap EXCEPT !.at = "enregister", !.ptrs = {RootSlot(i)}]
    /\ UNCHANGED <<pageVars, ty, collect_before_expand, pc, cur, cont>>

\* deregister is called for a deferred_ptr the heap still has on record
TeardownDeregister(a) ==
    /\ pc = "destroying" /\ ~fault
    /\ a \in roots[HeapH] \cup {x.p : x \in Entries(CurS)}
    /\ Commit(deregister(CurS, HeapH, a))
    /\ snap' = [NoSnap EXCEPT !.at = "deregister", !.ptrs = {a}]
    /\ UNCHANGED <<pageVars, ty, collect_before_expand, pc, cur, cont>>

\* the rest of ~deferred_heap()
TeardownFinish ==
    /\ pc = "destroying" /\ ~fault
    /\ Commit(teardown_end(CurS))
    /\ pc' = "idle"
    /\ snap' = [NoSnap EXCEPT !.at = "destroyed"]
    /\ UNCHANGED <<pageVars, ty, collect_before_expand, cur, cont>>

NextTeardown ==
    \/ \E i \in 1 .. NRoots : NewDefault(i)
    \/ \E dst \in Accessible, src \in Accessible \cup {SlotG} : Assign(dst, src)
    \/ \E dst \in Accessible, n \in 1 .. MaxArray : Make(dst, n)
    \/ TeardownBegin
    \/ \E i \in 1 .. NRoots : TeardownEnregister(i)
    \/ \E a \in DOMAIN sp : TeardownDeregister(a)
    \/ TeardownFinish

SpecTeardown == Init /\ [][NextTeardown]_vars

\* C29: while a deferred_heap is being destroyed (is_destroying is set), an
\* attempt to enregister a deferred_ptr with it is a contract failure, and
\* deregister returns without changing the root set or the deferred_ptrs
\* list of any page.
C29_TeardownRejectsRegistration ==
    [][(pc = "destroying" /\ is_destroying[HeapH] /\ ~fault) =>
         /\ snap'.at = "enregister" =>
               fault' /\ why' = "contract" /\ roots' = roots /\ pages' = pages
         /\ snap'.at = "deregister" =>
               ~fault' /\ roots' = roots /\ pages' = pages
    ]_vars

\* an enregister was attempted in the teardown of a heap that has roots and
\* deferred_ptrs inside a page on record
C29_Witness ==
    /\ pc = "destroying" /\ is_destroying[HeapH] /\ snap.at = "enregister"
    /\ roots[HeapH] # {}
    /\ \E k \in DOMAIN pages : pages[k].deferred_ptrs # <<>>

-----------------------------------------------------------------------------
(* Where destructors run, under Spec *)

\* C30: constructing, copying, assigning, resetting or destroying a
\* deferred_ptr runs no destructor and deallocates no storage; with
\* collect_before_expand off, make and make_array run no destructor that was
\* registered before; a destructor runs only inside collect(), inside
\* ~deferred_heap(), or inside construct on a location that has a record.
C30_DestructorsRunOnlyInCollect ==
    [][LET ran == {o \in DOMAIN dcount : dcount'[o] > dcount[o]}
           made == (Len(dcount) + 1) .. Len(dcount')
       IN  /\ (pc = "idle" /\ pc' = "idle" /\ ~fault /\ snap' = NoSnap
               /\ made = {}) =>
                 /\ dcount' = dcount /\ objs' = objs /\ dtors' = dtors
                 /\ allocs' = allocs
                 /\ Len(pages') = Len(pages)
                 /\ \A k \in DOMAIN pages : pages'[k].page = pages[k].page
           /\ (pc = "idle" /\ pc' = "idle" /\ ~fault /\ ~collect_before_expand
               /\ made # {} /\ allocs' # allocs) =>
                 /\ ran = {}
                 /\ allocs \subseteq allocs'
           /\ ran # {} =>
                 \/ pc = "sweep"
                 \/ snap'.at = "destroyed"
                 \/ /\ made # {}
                    /\ \A o \in ran : \E j \in DOMAIN dtors, n \in made :
                          /\ dtors[j].obj = o
                          /\ n \in DOMAIN objs' /\ dtors[j].p = objs'[n]
    ]_vars

\* the program has dropped every deferred_ptr into the allocation of a live
\* object that has a destructor on record, and no collect() has run since
C30_Witness ==
    /\ pc = "idle" /\ ~fault /\ alive[HeapH] /\ snap = NoSnap
    /\ ~collect_before_expand
    /\ \E o \in DOMAIN objs :
          /\ IsAlive(o) /\ HasRecord(o)
          /\ \E x \in allocs : PointsInto(objs[o], x)
          /\ \A x \in allocs : PointsInto(objs[o], x) =>
                \A a \in Attached(CurS) : ~PointsInto(sp[a].p, x)

-----------------------------------------------------------------------------
(* Further properties of the gpage, under SpecPage *)

\* the last call was an allocate that passed the fast-fail test and returned
\* the lowest candidate, or null when there was none; the candidates are the
\* locations at stride locations_step whose window of locations_needed
\* locations was free and ended at or before location `last`
FirstFit(last) ==
    (/\ gp_last.op = "allocate" /\ ~gp_fault
     /\ gp_last.bytes <= gp_last.before.current_known_request_bound) =>
        LET g    == gp_last.before
            step == 1 + (gp_last.align - 1) \div g.min_alloc
            locs == (1 + (gp_last.bytes - 1) \div g.min_alloc) + 1
            c    == {i \in 0 .. locations(g) - 1 :
                        /\ i % step = 0
                        /\ i + locs <= last
                        /\ \A k \in i .. i + locs - 1 : ~get(g.inuse, k)}
        IN  IF c = {} THEN gp_last.ret = NullOff
            ELSE /\ gp_last.ret # NullOff
                 /\ gp_last.ret \div gp.min_alloc \in c
                 /\ \A i \in c : gp_last.ret \div gp.min_alloc <= i

\* C33: a successful allocate<T>(n) returns the lowest location, among the
\* candidates at stride locations_step from location 0, whose window of
\* ceil(B/min_alloc)+1 locations lies inside the page and is entirely free;
\* once the fast-fail test has passed it returns null only if there is no
\* such candidate.
C33_AllocateFirstFit == FirstFit(locations(gp))

\* C33, as the code has it: the window must also end before the last
\* location of the page (i < locations() - locations_needed).
C33_AllocateFirstFitBelowLast == FirstFit(locations(gp) - 1)

\* C33 witness: the allocate skipped a free location, whose hole was too
\* small, and took a higher candidate
C33_Witness ==
    /\ gp_last.op = "allocate" /\ ~gp_fault /\ gp_last.ret # NullOff
    /\ \E k \in 0 .. gp_last.ret \div gp.min_alloc - 1 : ~get(gp_last.before.inuse, k)

\* C34: deallocate of the live allocation that starts at location i clears
\* starts[i] and exactly the inuse bits of that allocation's own window (its
\* data locations and its trailing location), leaves the starts and inuse
\* bits of every other location as they were, and sets
\* current_known_request_bound to total_size.
C34_DeallocateClearsOwnWindow ==
    [][(gp_last'.op = "deallocate" /\ DOMAIN gp_allocs' # DOMAIN gp_allocs) =>
         \A i \in DOMAIN gp_allocs \ DOMAIN gp_allocs' :
            /\ gp_last'.ret = i * gp.min_alloc
            /\ \A k \in 0 .. locations(gp) - 1 :
                  /\ get(gp'.starts, k) = (get(gp.starts, k) /\ k # i)
                  /\ get(gp'.inuse, k) =
                        (get(gp.inuse, k) /\ ~(i <= k /\ k < i + gp_allocs[i]))
            /\ \A k \in i .. i + gp_allocs[i] - 1 : get(gp.inuse, k)
            /\ gp'.current_known_request_bound = gp.total_size
            /\ gp'.total_size = gp.total_size /\ gp'.min_alloc = gp.min_alloc
    ]_vars

\* C34 witness: the allocation released lay between two others, which are
\* still there, and the bound had been lowered before
C34_Witness ==
    /\ gp_last.op = "deallocate" /\ ~gp_fault
    /\ gp_last.before.current_known_request_bound < gp.total_size
    /\ \E i, k \in DOMAIN gp_allocs :
          /\ i * gp.min_alloc < gp_last.ret /\ gp_last.ret < k * gp.min_alloc
          /\ get(gp.inuse, gp_last.ret \div gp.min_alloc - 1)

\* C37: in every state of the page reached by successful allocations, failed
\* allocations and deallocations, 0 <= current_known_request_bound <=
\* total_size: the decrement by min_alloc * locations_needed on a successful
\* allocation never wraps around in std::size_t.
C37_HintWithinPage ==
    ~gp_fault =>
        /\ 0 <= gp.current_known_request_bound
        /\ gp.current_known_request_bound <= gp.total_size

-----------------------------------------------------------------------------
(* SpecOwn: a program whose objects own deferred_ptrs that live outside the
   heap, so that a destructor run by collect() destroys roots *)

\* the object that r_i points to takes ownership of the holder of r_j: its
\* destructor will destroy r_j
Own(i, j) ==
    /\ Idle /\ alive[HeapH] /\ i # j
    /\ Derefable(RootSlot(i)) /\ RootSlot(j) \in DOMAIN sp
    /\ \A q \in owned : q[2] # RootSlot(j)
    /\ \E o \in DOMAIN objs :
          /\ objs[o] = sp[RootSlot(i)].p /\ dcount[o] = 0
          /\ \E d \in DOMAIN dtors : dtors[d].obj = o
          /\ owned' = owned \cup {<<o, RootSlot(j)>>}
    /\ snap' = NoSnap
    /\ UNCHANGED <<gp, gp_allocs, gp_last, gp_fault, flags, flags_ops, throwing,
                   dt_last, ty, pages, npages, roots, dtors, alive, is_destroying,
                   collect_before_expand, sp, objs, dcount, allocs, pc, cur, cont,
                   fault, why>>

NextOwn ==
    \/ \E i \in 1 .. NRoots : NewDefault(i)
    \/ \E dst \in Accessible : Reset(dst)
    \/ \E dst \in Accessible, n \in 1 .. MaxArray : Make(dst, n)
    \/ \E i, j \in 1 .. NRoots : Own(i, j)
    \/ CollectStart
    \/ SweepStep
    \/ CollectFinish

SpecOwn == Init /\ [][NextOwn]_vars

\* C31: when a destructor run in the sweep of collect() destroys root
\* deferred_ptrs of the heap, they are deregistered at once and the sweep
\* goes on until nothing changes: when collect() returns, no allocation is
\* left that cannot be reached from the roots registered at that moment.
\* Stated for the element type whose pages do not have a multiple of 32
\* locations, so that all_false does not interfere.
C31_NothingUnreachableAtReturn ==
    (snap.at = "returned" /\ pc = "idle" /\ ~fault /\ ty.size = 2000) =>
        /\ \A a \in roots[HeapH] : a \in DOMAIN sp
        /\ allocs \subseteq Reachable(CurS)

-----------------------------------------------------------------------------
(* Further properties of collect(), under Spec *)

\* C32: collect() removes a page from the heap only if the page has no
\* location in use: a page that still holds a live allocation at the end of
\* the sweep, wherever in the page it lies, is not dropped.
C32_DroppedPagesAreEmpty ==
    [][(pc = "sweep" /\ pc' # "sweep" /\ ~fault') =>
         \A k \in DOMAIN pages :
            (\A j \in DOMAIN pages' : pages'[j].id # pages[k].id) =>
                \A l \in 0 .. locations(pages[k].page) - 1 :
                    ~get(pages[k].page.inuse, l)
    ]_vars

\* the steps of collect() leave the roots, the deferred_ptrs stored in the
\* allocations of R, and the allocations of R themselves as they are
CollectKeeps(R) ==
    /\ \A a \in DOMAIN sp :
          (a[1] < 0 \/ \E x \in R : PointsInto(a, x)) =>
              /\ a \in DOMAIN sp' /\ sp'[a] = sp[a]
              /\ RegCount(a)' = RegCount(a)
              /\ (a \in roots[HeapH]) = (a \in roots'[HeapH])
    /\ \A a \in DOMAIN sp \cap DOMAIN sp' :
          sp'[a].p # sp[a].p => (a[1] > 0 /\ ~\E x \in R : PointsInto(a, x))
    /\ \A x \in R :
          /\ x \in allocs'
          /\ \E k \in DOMAIN pages, j \in DOMAIN pages' :
                /\ pages[k].id = x.pg /\ pages'[j].id = x.pg
                /\ \A l \in x.start .. x.start + x.locs - 1 :
                      /\ get(pages'[j].page.inuse, l) = get(pages[k].page.inuse, l)
                      /\ get(pages'[j].page.starts, l) = get(pages[k].page.starts, l)
          /\ {dtors'[i] : i \in {j \in DOMAIN dtors' : PointsInto(dtors'[j].p, x)}}
               = {dtors[i] : i \in {j \in DOMAIN dtors : PointsInto(dtors[j].p, x)}}

\* C35: collect() leaves the raw pointer, the heap handle and the
\* registration of every root deferred_ptr and of every deferred_ptr stored
\* in a reachable allocation unchanged, and likewise the starts and inuse
\* bits and the destructor records of every reachable allocation; the only
\* deferred_ptrs whose raw pointer it changes are those stored in
\* unreachable allocations.
C35_CollectKeepsReachable ==
    [][/\ (pc = "idle" /\ pc' = "sweep" /\ ~fault') => CollectKeeps(snap'.reach)
       /\ (pc = "sweep" /\ ~fault') => CollectKeeps(snap.reach)
    ]_vars

\* the while loop of collect(), entered with the last level used, makes at
\* most `left` passes, and no pass changes a level that is not 0
RECURSIVE MarkLoopBounded(_, _, _)
MarkLoopBounded(S, level, left) ==
    LET r == mark_pass([S |-> S, done |-> TRUE], level + 1, 1, 1)
    IN  /\ left > 0
        /\ r.S.fault \/
              \A k \in DOMAIN S.pages : \A e \in DOMAIN S.pages[k].deferred_ptrs :
                  S.pages[k].deferred_ptrs[e].level # 0 =>
                      r.S.pages[k].deferred_ptrs[e].level
                          = S.pages[k].deferred_ptrs[e].level
        /\ r.done \/ r.S.fault \/ MarkLoopBounded(r.S, level + 1, left - 1)

\* C36: collect() terminates on every heap, with or without cycles among
\* its objects: in one collection the level of an entry of deferred_ptrs is
\* set to a value other than 0 at most once, so the marking loop ends after
\* at most (number of deferred_ptrs registered in the pages + 1) passes.
C36_MarkLoopTerminates ==
    [][(pc = "idle" /\ pc' = "sweep") =>
         MarkLoopBounded(mark_roots(reset_marks(CurS), roots[HeapH], 1), 1,
                         Cardinality(Entries(reset_marks(CurS))) + 1)
    ]_vars

\* C36 witness: the mark phase has just run on two objects that point to
\* each other, one of them held by a root
C36_Witness ==
    /\ pc = "sweep" /\ cur = <<1, 0>> /\ ~fault
    /\ \E x, y \in Entries(CurS) :
          /\ x.level = 1 /\ y.level = 2
          /\ \E u, v \in allocs :
                /\ u # v
                /\ PointsInto(x.p, u) /\ PointsInto(sp[x.p].p, v)
                /\ PointsInto(y.p, v) /\ PointsInto(sp[y.p].p, u)

\* C38: a deferred_ptr that holds the one-past-the-end address of an
\* allocation (of one object or of an array) is attributed by contains_info
\* and by mark to that allocation and never to the one that follows it in
\* the page: in collect() it keeps its own allocation alive and does not
\* keep the following one alive.  Read right after the mark phase.
C38_OnePastEndMarksOwnAllocation ==
    (pc = "sweep" /\ cur = <<1, 0>> /\ ~fault) =>
        \A a \in Attached(CurS), x \in allocs, k \in DOMAIN pages :
            (/\ a[1] < 0 /\ pages[k].id = x.pg
             /\ sp[a].p = <<x.pg, x.lo + x.bytes>>) =>
                LET info == contains_info(pages[k].page, sp[a].p[2])
                IN  /\ info.found = in_range_allocated_middle
                    /\ info.start_location = x.start
                    /\ get(pages[k].live_starts, x.start)
                    /\ \A y \in allocs :
                          (y.pg = x.pg /\ y.start = x.start + x.locs
                           /\ get(pages[k].live_starts, y.start)) =>
                              y \in snap.reach

\* C38 witness: after the mark phase a root holds the one-past-the-end
\* address of an allocation, and the allocation that follows it is not marked
C38_Witness ==
    /\ pc = "sweep" /\ cur = <<1, 0>> /\ ~fault
    /\ \E a \in Attached(CurS), x, y \in allocs, k \in DOMAIN pages :
          /\ a[1] < 0 /\ pages[k].id = x.pg
          /\ sp[a].p = <<x.pg, x.lo + x.bytes>>
          /\ y.pg = x.pg /\ y.start = x.start + x.locs
          /\ get(pages[k].live_starts, x.start)
          /\ ~get(pages[k].live_starts, y.start)

-----------------------------------------------------------------------------
(* SpecNode: the program of Spec for an element type of 256 bytes that has a
   deferred_ptr member; its pages have 32 locations *)

InitNode ==
    /\ NoPage /\ NoBits /\ NoDtors
    /\ ty = [size |-> 256, align |-> 8, ptrs |-> {0}, dtor |-> TRUE]
    /\ HeapInit

NextNode ==
    \/ \E i \in 1 .. NRoots : NewDefault(i)
    \/ \E dst \in Accessible, src \in Accessible \cup {SlotG} : Assign(dst, src)
    \/ \E dst \in Accessible : Reset(dst)
    \/ \E dst \in Accessible, n \in 1 .. MaxArray : Make(dst, n)
    \/ CollectStart
    \/ SweepStep
    \/ CollectFinish

SpecNode == InitNode /\ [][NextNode]_vars

\* C39: between operations, the storage address of every entry of a page's
\* deferred_ptrs lies in a location of that page that is in use: the Expects
\* of mark on these entries never fails, and a page that collect() finds
\* empty has no deferred_ptrs left (the Ensures of step 5 holds).
C39_EntriesInAllocatedStorage ==
    [][/\ (pc' = "idle" /\ ~fault') =>
            \A k \in DOMAIN pages' : \A e \in DOMAIN pages'[k].deferred_ptrs :
                dh_contains_info(pages'[k], pages'[k].deferred_ptrs[e].p).found
                    \in {in_range_allocated_middle, in_range_allocated_start}
       /\ (pc = "sweep" /\ ~fault /\ pc' # "sweep") => ~fault'
    ]_vars

-----------------------------------------------------------------------------
(* The levels that the mark phase assigns, under Spec *)

\* the allocations that a path of at most d deferred_ptrs reaches from the
\* deferred_ptrs held outside the heap
RECURSIVE ReachLayer(_, _)
ReachLayer(S, d) == IF d = 0 THEN {} ELSE ReachStep(S, ReachLayer(S, d - 1))

\* C40: at the end of the mark phase of collect(), an entry of deferred_ptrs
\* has level 0 iff the allocation that holds its storage cannot be reached
\* from the roots, and level k > 0 iff the shortest path of deferred_ptrs
\* from a root to that allocation has exactly k pointers.
C40_LevelIsDistance ==
    (pc = "sweep" /\ cur = <<1, 0>> /\ ~fault) =>
        \A e \in Entries(CurS) :
            \E x \in allocs :
                /\ PointsInto(e.p, x)
                /\ (e.level = 0) = (x \notin snap.reach)
                /\ e.level > 0 =>
                      /\ x \in ReachLayer(CurS, e.level)
                      /\ x \notin ReachLayer(CurS, e.level - 1)

\* C40 witness: after the mark phase one entry is at distance 1 and another,
\* in an allocation no root points into, at distance 2
C40_Witness ==
    /\ pc = "sweep" /\ cur = <<1, 0>> /\ ~fault
    /\ \E e, f \in Entries(CurS) :
          /\ e.level = 1 /\ f.level = 2
          /\ \E x \in allocs :
                /\ PointsInto(f.p, x)
                /\ \A a \in Attached(CurS) : a[1] < 0 => ~PointsInto(sp[a].p, x)


=============================================================================
